---- MODULE Spec2Model ----
(***************************************************************************)
(* The attendance / justification lifecycle of the hodory attendance       *)
(* backend: enrollments, class sessions, attendance records and            *)
(* justifications, and the controller operations that change them.         *)
(* Every action is one controller call run to completion (requests run     *)
(* one at a time); `response` is the last call and the HTTP status it      *)
(* ended with.                                                             *)
(***************************************************************************)
EXTENDS Integers, FiniteSets, Sequences, TLC

\* ---------------------------------------------------------------- bounds
\* The enrollments, sessions and justifications tables hold at most MaxRows
\* rows together (attendance records come with the sessions) when a row is
\* added to the first two; a justification is added while the first two hold
\* less than MaxRows rows and the justifications table less than
\* MaxJustifications.
MaxRows == 3
MaxJustifications == 2
\* A bulk request names at most MaxBulk items.
MaxBulk == 2

\* ------------------------------------------------- fixed reference data
\* Students, modules and teachers exist throughout; the lifecycle operations
\* never create or remove them.
Students == {"st1", "st2"}
Modules == {"m1", "m2"}
Teachers == {"t1", "t2"}

\* Rows of the teacher_modules table: assignment id -> (teacher, module).
teacher_modules ==
    [tm \in {"tm1"} |-> [teacher_id |-> "t1", module_id |-> "m1"]]

\* The values uuid4().hex[:6].upper() can take, cut down to two.
Codes == {"A1B2C3", "D4E5F6"}

AttendanceStatus == {"PRESENT", "ABSENT", "EXCLUDED"}
JustificationStatus == {"PENDING", "APPROVED", "REJECTED"}

\* AttendanceRecord.justification_id = None
NoJustification == 0

\* ----------------------------------------------------------------- state
VARIABLES
    enrollments,          \* id -> Enrollment row
    sessions,             \* id -> Session row
    attendance_records,   \* id -> AttendanceRecord row
    justifications,       \* id -> Justification row
    response,             \* the last request: operation and HTTP status
                          \* ("ok": 2xx)
    requests              \* the requests in flight whose reads and commits
                          \* interleave: request -> position and local objects

db == <<enrollments, sessions, attendance_records, justifications>>
vars == <<enrollments, sessions, attendance_records, justifications, response,
          requests>>

\* What session.delete leaves of a row: its id is never given out again.
DeletedEnrollment ==
    [student_id |-> "deleted", module_id |-> "deleted", number_of_absences |-> 0,
     number_of_absences_justified |-> 0, is_excluded |-> FALSE]
DeletedAttendanceRecord ==
    [session_id |-> 0, module_id |-> "deleted", enrollement_id |-> 0,
     status |-> "deleted", justification_id |-> NoJustification]

EnrollmentIds == {e \in DOMAIN enrollments : enrollments[e] # DeletedEnrollment}
SessionIds == DOMAIN sessions
AttendanceIds ==
    {r \in DOMAIN attendance_records :
        attendance_records[r] # DeletedAttendanceRecord}
JustificationIds == DOMAIN justifications

Rows == Len(enrollments) + Len(sessions) + Len(justifications)

Init ==
    /\ enrollments = << >>
    /\ sessions = << >>
    /\ attendance_records = << >>
    /\ justifications = << >>
    /\ response = [op |-> "none", status |-> "ok"]
    /\ requests = << >>

\* raise HTTPException(status_code=...): the request ends, nothing is committed.
Raise(op, status_code) ==
    /\ response' = [op |-> op, status |-> status_code]
    /\ UNCHANGED <<db, requests>>

\* The call commits and returns its result.
Return(op) ==
    /\ response' = [op |-> op, status |-> "ok"]
    /\ UNCHANGED requests

\* ------------------------------------------------------------- helpers
\* select(Enrollment).where(student_id == .., module_id == ..)
EnrollmentsOf(student_id, module_id) ==
    {e \in EnrollmentIds : /\ enrollments[e].student_id = student_id
                           /\ enrollments[e].module_id = module_id}

\* select(ClassSession).where(session_code == ..)
SessionsByCode(code) ==
    {s \in SessionIds : sessions[s].session_code = code}

\* select(AttendanceRecord).where(session_id == .., enrollement_id == ..)
RecordsOf(session_id, enrollment_id) ==
    {r \in AttendanceIds : /\ attendance_records[r].session_id = session_id
                           /\ attendance_records[r].enrollement_id = enrollment_id}

\* select(AttendanceRecord).where(session_id == ..)
RecordsOfSession(session_id) ==
    {r \in AttendanceIds : attendance_records[r].session_id = session_id}

ModuleOfSession(s) == teacher_modules[sessions[s].teacher_module_id].module_id

_verify_teacher_owns_session(s, teacher_id) ==
    teacher_modules[sessions[s].teacher_module_id].teacher_id = teacher_id

\* The elements of a finite set of integers, in ascending order.
RECURSIVE SortedSeq(_)
SortedSeq(S) ==
    IF S = {} THEN << >>
    ELSE LET m == CHOOSE x \in S : \A y \in S : x <= y
         IN <<m>> \o SortedSeq(S \ {m})

\* ------------------------------------------------------------ enrollment
\* EnrollmentController.enroll_student
enroll_student(student_id, module_id) ==
    LET existing == EnrollmentsOf(student_id, module_id)
    IN \/ /\ existing # {}
          /\ \E e \in existing :
                /\ enrollments[e].is_excluded
                /\ enrollments' = [enrollments EXCEPT ![e].is_excluded = FALSE]
          /\ UNCHANGED <<sessions, attendance_records, justifications>>
          /\ Return("enroll_student")
       \/ /\ existing # {}
          /\ \E e \in existing : ~enrollments[e].is_excluded
          /\ Raise("enroll_student", "HTTP_400_BAD_REQUEST")
       \/ /\ existing = {}
          /\ Rows < MaxRows
          /\ enrollments' = Append(enrollments,
                [student_id |-> student_id, module_id |-> module_id,
                 number_of_absences |-> 0, number_of_absences_justified |-> 0,
                 is_excluded |-> FALSE])
          /\ UNCHANGED <<sessions, attendance_records, justifications>>
          /\ Return("enroll_student")

\* The loop of bulk_enroll_students: enroll_student for each id in turn on the
\* table `es`, an HTTPException putting the id on `failed`, a return on
\* `success`.
RECURSIVE bulk_enroll_loop(_, _, _, _, _)
bulk_enroll_loop(student_ids, module_id, es, success, failed) ==
    IF student_ids = << >>
    THEN [enrollments |-> es, success |-> success, failed |-> failed]
    ELSE LET student_id == Head(student_ids)
             existing == {e \in DOMAIN es :
                             /\ es[e].student_id = student_id
                             /\ es[e].module_id = module_id}
             first == CHOOSE e \in existing : \A x \in existing : e <= x
         IN IF existing # {} /\ es[first].is_excluded
            THEN bulk_enroll_loop(Tail(student_ids), module_id,
                     [es EXCEPT ![first].is_excluded = FALSE],
                     Append(success, student_id), failed)
            ELSE IF existing # {}
            THEN bulk_enroll_loop(Tail(student_ids), module_id, es,
                     success, Append(failed, student_id))
            ELSE bulk_enroll_loop(Tail(student_ids), module_id,
                     Append(es,
                        [student_id |-> student_id, module_id |-> module_id,
                         number_of_absences |-> 0,
                         number_of_absences_justified |-> 0,
                         is_excluded |-> FALSE]),
                     Append(success, student_id), failed)

\* EnrollmentController.bulk_enroll_students
bulk_enroll_students(student_ids, module_id) ==
    LET result == bulk_enroll_loop(student_ids, module_id, enrollments,
                                   << >>, << >>)
    IN /\ Len(result.enrollments) + Len(sessions) + Len(justifications)
             <= MaxRows
       /\ enrollments' = result.enrollments
       /\ UNCHANGED <<sessions, attendance_records, justifications, requests>>
       /\ response' = [op |-> "bulk_enroll_students", status |-> "ok",
                       enrolled_students |-> result.success,
                       failures |-> result.failed]

\* --------------------------------------------------------------- sessions
\* The AttendanceRecord rows create_session adds for a new session: one ABSENT
\* row per enrollment in `es` (a sequence of enrollment ids).
NewAttendanceRecords(session_id, module_id, es) ==
    [i \in 1..Len(es) |->
        [session_id |-> session_id, module_id |-> module_id,
         enrollement_id |-> es[i], status |-> "ABSENT",
         justification_id |-> NoJustification]]

\* The select of create_session without its is_excluded == False condition.
EnrollmentsOfModule(module_id) ==
    {e \in EnrollmentIds : enrollments[e].module_id = module_id}

\* select(Enrollment).where(module_id == .., is_excluded == False)
NotExcludedEnrollments(module_id) ==
    {e \in EnrollmentIds : /\ enrollments[e].module_id = module_id
                           /\ enrollments[e].is_excluded = FALSE}

\* SessionController.generate_share_code: any value of the code space, with
\* no look at the codes already in use.
generate_share_code == Codes

\* TeacherController.create_session
create_session(teacher_id, module_id) ==
    LET tms == {tm \in DOMAIN teacher_modules :
                    /\ teacher_modules[tm].teacher_id = teacher_id
                    /\ teacher_modules[tm].module_id = module_id}
    IN \/ /\ tms = {}
          /\ Raise("create_session", "HTTP_403_FORBIDDEN")
       \/ /\ Rows < MaxRows
          /\ \E tm \in tms, share_code \in generate_share_code :
                LET new_id == Len(sessions) + 1
                    es == SortedSeq(NotExcludedEnrollments(module_id))
                IN /\ sessions' = Append(sessions,
                          [teacher_module_id |-> tm, session_code |-> share_code,
                           is_active |-> TRUE])
                   /\ attendance_records' = attendance_records \o
                          NewAttendanceRecords(new_id, module_id, es)
          /\ UNCHANGED <<enrollments, justifications>>
          /\ Return("create_session")

\* A close operation that flips the active flag instead of clearing it, and
\* does not look at the flag first.
close_session_toggling(session_id, teacher_id) ==
    \/ /\ session_id \notin SessionIds
       /\ Raise("TeacherController.close_session", "HTTP_404_NOT_FOUND")
    \/ /\ session_id \in SessionIds
       /\ ~_verify_teacher_owns_session(session_id, teacher_id)
       /\ Raise("TeacherController.close_session", "HTTP_403_FORBIDDEN")
    \/ /\ session_id \in SessionIds
       /\ _verify_teacher_owns_session(session_id, teacher_id)
       /\ sessions' = [sessions EXCEPT ![session_id].is_active = ~@]
       /\ UNCHANGED <<enrollments, attendance_records, justifications>>
       /\ Return("TeacherController.close_session")

\* TeacherController.close_session: the close operation of the teacher API.
TeacherController_close_session(session_id, teacher_id) ==
    \/ /\ session_id \notin SessionIds
       /\ Raise("TeacherController.close_session", "HTTP_404_NOT_FOUND")
    \/ /\ session_id \in SessionIds
       /\ ~_verify_teacher_owns_session(session_id, teacher_id)
       /\ Raise("TeacherController.close_session", "HTTP_403_FORBIDDEN")
    \/ /\ session_id \in SessionIds
       /\ _verify_teacher_owns_session(session_id, teacher_id)
       /\ ~sessions[session_id].is_active
       /\ Raise("TeacherController.close_session", "HTTP_400_BAD_REQUEST")
    \/ /\ session_id \in SessionIds
       /\ _verify_teacher_owns_session(session_id, teacher_id)
       /\ sessions[session_id].is_active
       /\ sessions' = [sessions EXCEPT ![session_id].is_active = FALSE]
       /\ UNCHANGED <<enrollments, attendance_records, justifications>>
       /\ Return("TeacherController.close_session")

\* The ABSENT records of a session that belong to enrollment e.
AbsentRecords(session_id, e) ==
    {r \in RecordsOfSession(session_id) :
        /\ attendance_records[r].status = "ABSENT"
        /\ attendance_records[r].enrollement_id = e}

\* SessionController.close_session without its ownership check.
close_session_by_any_teacher(session_id, teacher_id) ==
    \/ /\ session_id \notin SessionIds
       /\ Raise("SessionController.close_session", "HTTP_404_NOT_FOUND")
    \/ /\ session_id \in SessionIds
       /\ ~sessions[session_id].is_active
       /\ Raise("SessionController.close_session", "HTTP_400_BAD_REQUEST")
    \/ /\ session_id \in SessionIds
       /\ sessions[session_id].is_active
       /\ sessions' = [sessions EXCEPT ![session_id].is_active = FALSE]
       /\ enrollments' =
             [e \in DOMAIN enrollments |->
                 [enrollments[e] EXCEPT !.number_of_absences =
                     @ + Cardinality(AbsentRecords(session_id, e))]]
       /\ UNCHANGED <<attendance_records, justifications>>
       /\ Return("SessionController.close_session")

\* SessionController.close_session without its "already closed" check.
close_session_without_active_check(session_id, teacher_id) ==
    \/ /\ session_id \notin SessionIds
       /\ Raise("SessionController.close_session", "HTTP_404_NOT_FOUND")
    \/ /\ session_id \in SessionIds
       /\ ~_verify_teacher_owns_session(session_id, teacher_id)
       /\ Raise("SessionController.close_session", "HTTP_403_FORBIDDEN")
    \/ /\ session_id \in SessionIds
       /\ _verify_teacher_owns_session(session_id, teacher_id)
       /\ sessions' = [sessions EXCEPT ![session_id].is_active = FALSE]
       /\ enrollments' =
             [e \in DOMAIN enrollments |->
                 [enrollments[e] EXCEPT !.number_of_absences =
                     @ + Cardinality(AbsentRecords(session_id, e))]]
       /\ UNCHANGED <<attendance_records, justifications>>
       /\ Return("SessionController.close_session")

\* SessionController.close_session
SessionController_close_session(session_id, teacher_id) ==
    \/ /\ session_id \notin SessionIds
       /\ Raise("SessionController.close_session", "HTTP_404_NOT_FOUND")
    \/ /\ session_id \in SessionIds
       /\ ~sessions[session_id].is_active
       /\ Raise("SessionController.close_session", "HTTP_400_BAD_REQUEST")
    \/ /\ session_id \in SessionIds
       /\ sessions[session_id].is_active
       /\ ~_verify_teacher_owns_session(session_id, teacher_id)
       /\ Raise("SessionController.close_session", "HTTP_403_FORBIDDEN")
    \/ /\ session_id \in SessionIds
       /\ sessions[session_id].is_active
       /\ _verify_teacher_owns_session(session_id, teacher_id)
       /\ sessions' = [sessions EXCEPT ![session_id].is_active = FALSE]
       /\ enrollments' =
             [e \in DOMAIN enrollments |->
                 [enrollments[e] EXCEPT !.number_of_absences =
                     @ + Cardinality(AbsentRecords(session_id, e))]]
       /\ UNCHANGED <<attendance_records, justifications>>
       /\ Return("SessionController.close_session")

\* ---------------------------------------------------------------- marking
\* StudentController.mark_attendance: the marking operation of the student API.
StudentController_mark_attendance(student_id, session_code) ==
    \/ /\ SessionsByCode(session_code) = {}
       /\ Raise("StudentController.mark_attendance", "HTTP_404_NOT_FOUND")
    \/ \E s \in SessionsByCode(session_code) :                      \* .first()
         LET es == EnrollmentsOf(student_id, ModuleOfSession(s))
         IN \/ /\ ~sessions[s].is_active
               /\ Raise("StudentController.mark_attendance", "HTTP_400_BAD_REQUEST")
            \/ /\ sessions[s].is_active
               /\ es = {}
               /\ Raise("StudentController.mark_attendance", "HTTP_403_FORBIDDEN")
            \/ /\ sessions[s].is_active
               /\ \E e \in es :                               \* .first()
                    \/ /\ enrollments[e].is_excluded
                       /\ Raise("StudentController.mark_attendance", "HTTP_403_FORBIDDEN")
                    \/ /\ ~enrollments[e].is_excluded
                       /\ RecordsOf(s, e) = {}
                       /\ Raise("StudentController.mark_attendance", "HTTP_404_NOT_FOUND")
                    \/ /\ ~enrollments[e].is_excluded
                       /\ \E r \in RecordsOf(s, e) :          \* .first()
                            \/ /\ attendance_records[r].status = "PRESENT"
                               /\ Raise("StudentController.mark_attendance", "HTTP_400_BAD_REQUEST")
                            \/ /\ attendance_records[r].status # "PRESENT"
                               /\ attendance_records' =
                                     [attendance_records EXCEPT
                                         ![r].status = "PRESENT"]
                               /\ UNCHANGED <<enrollments, sessions,
                                              justifications>>
                               /\ Return("StudentController.mark_attendance")

\* SessionController.mark_attendance
SessionController_mark_attendance(share_code, student_id) ==
    \/ /\ SessionsByCode(share_code) = {}
       /\ Raise("SessionController.mark_attendance", "HTTP_404_NOT_FOUND")
    \/ \E s \in SessionsByCode(share_code) :                      \* .first()
         LET es == EnrollmentsOf(student_id, ModuleOfSession(s))
         IN \/ /\ ~sessions[s].is_active
               /\ Raise("SessionController.mark_attendance", "HTTP_400_BAD_REQUEST")
            \/ /\ sessions[s].is_active
               /\ es = {}
               /\ Raise("SessionController.mark_attendance", "HTTP_404_NOT_FOUND")
            \/ /\ sessions[s].is_active
               /\ \E e \in es :                               \* .first()
                    \/ /\ enrollments[e].is_excluded
                       /\ Raise("SessionController.mark_attendance", "HTTP_403_FORBIDDEN")
                    \/ /\ ~enrollments[e].is_excluded
                       /\ RecordsOf(s, e) = {}
                       /\ Raise("SessionController.mark_attendance", "HTTP_404_NOT_FOUND")
                    \/ /\ ~enrollments[e].is_excluded
                       /\ \E r \in RecordsOf(s, e) :          \* .first()
                            \/ /\ attendance_records[r].status = "PRESENT"
                               /\ Raise("SessionController.mark_attendance", "HTTP_400_BAD_REQUEST")
                            \/ /\ attendance_records[r].status # "PRESENT"
                               /\ attendance_records' =
                                     [attendance_records EXCEPT
                                         ![r].status = "PRESENT"]
                               /\ UNCHANGED <<enrollments, sessions,
                                              justifications>>
                               /\ Return("SessionController.mark_attendance")

\* ------------------------------------------------- teacher-moderated override
\* A transition table that also lets PRESENT go to EXCLUDED.
valid_transitions_present_to_excluded(from) ==
    CASE from = "ABSENT" -> {"PRESENT", "EXCLUDED"}
      [] from = "PRESENT" -> {"ABSENT", "EXCLUDED"}
      [] from = "EXCLUDED" -> {"ABSENT"}

\* valid_transitions of AttendanceController.update_attendance_status
valid_transitions(from) ==
    CASE from = "ABSENT" -> {"PRESENT", "EXCLUDED"}
      [] from = "PRESENT" -> {"ABSENT"}
      [] from = "EXCLUDED" -> {"ABSENT"}

\* AttendanceController.update_attendance_status
update_attendance_status(attendance_id, new_status) ==
    \/ /\ attendance_id \notin AttendanceIds
       /\ Raise("update_attendance_status", "HTTP_404_NOT_FOUND")
    \/ /\ attendance_id \in AttendanceIds
       /\ new_status \notin
             valid_transitions(attendance_records[attendance_id].status)
       /\ Raise("update_attendance_status", "HTTP_400_BAD_REQUEST")
    \/ /\ attendance_id \in AttendanceIds
       /\ new_status \in
             valid_transitions(attendance_records[attendance_id].status)
       /\ attendance_records' =
             [attendance_records EXCEPT ![attendance_id].status = new_status]
       /\ UNCHANGED <<enrollments, sessions, justifications>>
       /\ Return("update_attendance_status")

\* --------------------------------------------------------------- exclusion
\* An exclusion that sets every record of the enrollment EXCLUDED, the PRESENT
\* ones too.
make_excluded_all_records(enrollment_id) ==
    \/ /\ enrollment_id \notin EnrollmentIds
       /\ Raise("make_excluded_from_module", "HTTP_404_NOT_FOUND")
    \/ /\ enrollment_id \in EnrollmentIds
       /\ enrollments[enrollment_id].is_excluded
       /\ Raise("make_excluded_from_module", "HTTP_400_BAD_REQUEST")
    \/ /\ enrollment_id \in EnrollmentIds
       /\ ~enrollments[enrollment_id].is_excluded
       /\ enrollments' = [enrollments EXCEPT ![enrollment_id].is_excluded = TRUE]
       /\ attendance_records' =
             [r \in DOMAIN attendance_records |->
                 IF attendance_records[r].enrollement_id = enrollment_id
                 THEN [attendance_records[r] EXCEPT !.status = "EXCLUDED"]
                 ELSE attendance_records[r]]
       /\ UNCHANGED <<sessions, justifications>>
       /\ Return("make_excluded_from_module")

\* EnrollmentController.make_excluded_from_module
make_excluded_from_module(enrollment_id) ==
    \/ /\ enrollment_id \notin EnrollmentIds
       /\ Raise("make_excluded_from_module", "HTTP_404_NOT_FOUND")
    \/ /\ enrollment_id \in EnrollmentIds
       /\ enrollments[enrollment_id].is_excluded
       /\ Raise("make_excluded_from_module", "HTTP_400_BAD_REQUEST")
    \/ /\ enrollment_id \in EnrollmentIds
       /\ ~enrollments[enrollment_id].is_excluded
       /\ enrollments' = [enrollments EXCEPT ![enrollment_id].is_excluded = TRUE]
       /\ attendance_records' =
             [r \in DOMAIN attendance_records |->
                 IF /\ attendance_records[r].enrollement_id = enrollment_id
                    /\ attendance_records[r].status = "ABSENT"
                 THEN [attendance_records[r] EXCEPT !.status = "EXCLUDED"]
                 ELSE attendance_records[r]]
       /\ UNCHANGED <<sessions, justifications>>
       /\ Return("make_excluded_from_module")

\* A reinstatement that also turns the enrollment's EXCLUDED records back
\* into ABSENT ones.
reinstate_reverting_records(enrollment_id) ==
    \/ /\ enrollment_id \notin EnrollmentIds
       /\ Raise("reinstate_student", "HTTP_404_NOT_FOUND")
    \/ /\ enrollment_id \in EnrollmentIds
       /\ ~enrollments[enrollment_id].is_excluded
       /\ Raise("reinstate_student", "HTTP_400_BAD_REQUEST")
    \/ /\ enrollment_id \in EnrollmentIds
       /\ enrollments[enrollment_id].is_excluded
       /\ enrollments' = [enrollments EXCEPT ![enrollment_id].is_excluded = FALSE]
       /\ attendance_records' =
             [r \in DOMAIN attendance_records |->
                 IF /\ attendance_records[r].enrollement_id = enrollment_id
                    /\ attendance_records[r].status = "EXCLUDED"
                 THEN [attendance_records[r] EXCEPT !.status = "ABSENT"]
                 ELSE attendance_records[r]]
       /\ UNCHANGED <<sessions, justifications>>
       /\ Return("reinstate_student")

\* EnrollmentController.reinstate_student
reinstate_student(enrollment_id) ==
    \/ /\ enrollment_id \notin EnrollmentIds
       /\ Raise("reinstate_student", "HTTP_404_NOT_FOUND")
    \/ /\ enrollment_id \in EnrollmentIds
       /\ ~enrollments[enrollment_id].is_excluded
       /\ Raise("reinstate_student", "HTTP_400_BAD_REQUEST")
    \/ /\ enrollment_id \in EnrollmentIds
       /\ enrollments[enrollment_id].is_excluded
       /\ enrollments' = [enrollments EXCEPT ![enrollment_id].is_excluded = FALSE]
       /\ UNCHANGED <<sessions, attendance_records, justifications>>
       /\ Return("reinstate_student")

\* ----------------------------------------------------------- justifications
\* justify_absence without its "does not belong to you" check.
justify_absence_without_ownership_check(student_id, attendance_record_id) ==
    LET a == attendance_records[attendance_record_id]
    IN \/ /\ attendance_record_id \notin AttendanceIds
          /\ Raise("justify_absence", "HTTP_404_NOT_FOUND")
       \/ /\ attendance_record_id \in AttendanceIds
          /\ a.status # "ABSENT"
          /\ Raise("justify_absence", "HTTP_400_BAD_REQUEST")
       \/ /\ attendance_record_id \in AttendanceIds
          /\ a.status = "ABSENT"
          /\ \E j \in JustificationIds :
                justifications[j].attendance_record_id = attendance_record_id
          /\ Raise("justify_absence", "HTTP_400_BAD_REQUEST")
       \/ /\ attendance_record_id \in AttendanceIds
          /\ a.status = "ABSENT"
          /\ ~\E j \in JustificationIds :
                justifications[j].attendance_record_id = attendance_record_id
          /\ Len(enrollments) + Len(sessions) < MaxRows
          /\ Len(justifications) < MaxJustifications
          /\ justifications' = Append(justifications,
                [attendance_record_id |-> attendance_record_id,
                 status |-> "PENDING"])
          /\ attendance_records' =
                [attendance_records EXCEPT
                    ![attendance_record_id].justification_id =
                        Len(justifications) + 1]
          /\ UNCHANGED <<enrollments, sessions>>
          /\ Return("justify_absence")

\* justify_absence that skips the look-up of an existing justification.
justify_absence_without_existing_check(student_id, attendance_record_id) ==
    LET a == attendance_records[attendance_record_id]
    IN \/ /\ attendance_record_id \notin AttendanceIds
          /\ Raise("justify_absence", "HTTP_404_NOT_FOUND")
       \/ /\ attendance_record_id \in AttendanceIds
          /\ \/ a.enrollement_id \notin EnrollmentIds
             \/ enrollments[a.enrollement_id].student_id # student_id
          /\ Raise("justify_absence", "HTTP_403_FORBIDDEN")
       \/ /\ attendance_record_id \in AttendanceIds
          /\ a.enrollement_id \in EnrollmentIds
          /\ enrollments[a.enrollement_id].student_id = student_id
          /\ a.status # "ABSENT"
          /\ Raise("justify_absence", "HTTP_400_BAD_REQUEST")
       \/ /\ attendance_record_id \in AttendanceIds
          /\ a.enrollement_id \in EnrollmentIds
          /\ enrollments[a.enrollement_id].student_id = student_id
          /\ a.status = "ABSENT"
          /\ Len(enrollments) + Len(sessions) < MaxRows
          /\ Len(justifications) < MaxJustifications
          /\ justifications' = Append(justifications,
                [attendance_record_id |-> attendance_record_id,
                 status |-> "PENDING"])
          /\ attendance_records' =
                [attendance_records EXCEPT
                    ![attendance_record_id].justification_id =
                        Len(justifications) + 1]
          /\ UNCHANGED <<enrollments, sessions>>
          /\ Return("justify_absence")

\* justify_absence that does not write the back-reference on the record.
justify_absence_without_back_reference(student_id, attendance_record_id) ==
    LET a == attendance_records[attendance_record_id]
    IN \/ /\ attendance_record_id \notin AttendanceIds
          /\ Raise("justify_absence", "HTTP_404_NOT_FOUND")
       \/ /\ attendance_record_id \in AttendanceIds
          /\ \/ a.enrollement_id \notin EnrollmentIds
             \/ enrollments[a.enrollement_id].student_id # student_id
          /\ Raise("justify_absence", "HTTP_403_FORBIDDEN")
       \/ /\ attendance_record_id \in AttendanceIds
          /\ a.enrollement_id \in EnrollmentIds
          /\ enrollments[a.enrollement_id].student_id = student_id
          /\ a.status # "ABSENT"
          /\ Raise("justify_absence", "HTTP_400_BAD_REQUEST")
       \/ /\ attendance_record_id \in AttendanceIds
          /\ a.enrollement_id \in EnrollmentIds
          /\ enrollments[a.enrollement_id].student_id = student_id
          /\ a.status = "ABSENT"
          /\ \E j \in JustificationIds :
                justifications[j].attendance_record_id = attendance_record_id
          /\ Raise("justify_absence", "HTTP_400_BAD_REQUEST")
       \/ /\ attendance_record_id \in AttendanceIds
          /\ a.enrollement_id \in EnrollmentIds
          /\ enrollments[a.enrollement_id].student_id = student_id
          /\ a.status = "ABSENT"
          /\ ~\E j \in JustificationIds :
                justifications[j].attendance_record_id = attendance_record_id
          /\ Len(enrollments) + Len(sessions) < MaxRows
          /\ Len(justifications) < MaxJustifications
          /\ justifications' = Append(justifications,
                [attendance_record_id |-> attendance_record_id,
                 status |-> "PENDING"])
          /\ UNCHANGED <<enrollments, sessions, attendance_records>>
          /\ Return("justify_absence")

\* StudentController.justify_absence
justify_absence(student_id, attendance_record_id) ==
    LET a == attendance_records[attendance_record_id]
    IN \/ /\ attendance_record_id \notin AttendanceIds
          /\ Raise("justify_absence", "HTTP_404_NOT_FOUND")
       \/ /\ attendance_record_id \in AttendanceIds
          /\ \/ a.enrollement_id \notin EnrollmentIds
             \/ enrollments[a.enrollement_id].student_id # student_id
          /\ Raise("justify_absence", "HTTP_403_FORBIDDEN")
       \/ /\ attendance_record_id \in AttendanceIds
          /\ a.enrollement_id \in EnrollmentIds
          /\ enrollments[a.enrollement_id].student_id = student_id
          /\ a.status # "ABSENT"
          /\ Raise("justify_absence", "HTTP_400_BAD_REQUEST")
       \/ /\ attendance_record_id \in AttendanceIds
          /\ a.enrollement_id \in EnrollmentIds
          /\ enrollments[a.enrollement_id].student_id = student_id
          /\ a.status = "ABSENT"
          /\ \E j \in JustificationIds :
                justifications[j].attendance_record_id = attendance_record_id
          /\ Raise("justify_absence", "HTTP_400_BAD_REQUEST")
       \/ /\ attendance_record_id \in AttendanceIds
          /\ a.enrollement_id \in EnrollmentIds
          /\ enrollments[a.enrollement_id].student_id = student_id
          /\ a.status = "ABSENT"
          /\ ~\E j \in JustificationIds :
                justifications[j].attendance_record_id = attendance_record_id
          /\ Len(enrollments) + Len(sessions) < MaxRows
          /\ Len(justifications) < MaxJustifications
          /\ justifications' = Append(justifications,
                [attendance_record_id |-> attendance_record_id,
                 status |-> "PENDING"])
          /\ attendance_records' =
                [attendance_records EXCEPT
                    ![attendance_record_id].justification_id =
                        Len(justifications) + 1]
          /\ UNCHANGED <<enrollments, sessions>>
          /\ Return("justify_absence")

\* JustificationController.approve: the success path; the caller has already
\* found the justification and found it PENDING, so its own 404 and 400 are
\* never raised.
approve(justification_id) ==
    /\ justification_id \in JustificationIds
    /\ justifications[justification_id].status = "PENDING"
    /\ justifications' = [justifications EXCEPT ![justification_id].status = "APPROVED"]

\* JustificationController.reject: the success path, as for approve.
reject(justification_id) ==
    /\ justification_id \in JustificationIds
    /\ justifications[justification_id].status = "PENDING"
    /\ justifications' = [justifications EXCEPT ![justification_id].status = "REJECTED"]

\* validate_justification that decides a justification in any status.
validate_justification_without_pending_check(justification_id, teacher_id, decision) ==
    LET j == justifications[justification_id]
        a == attendance_records[j.attendance_record_id]
    IN \/ /\ justification_id \notin JustificationIds
          /\ Raise("validate_justification", "HTTP_404_NOT_FOUND")
       \/ /\ justification_id \in JustificationIds
          /\ ~_verify_teacher_owns_session(a.session_id, teacher_id)
          /\ Raise("validate_justification", "HTTP_403_FORBIDDEN")
       \/ /\ justification_id \in JustificationIds
          /\ _verify_teacher_owns_session(a.session_id, teacher_id)
          /\ decision = "approve"
          /\ justifications' =
                [justifications EXCEPT ![justification_id].status = "APPROVED"]
          /\ attendance_records' =
                [attendance_records EXCEPT
                    ![j.attendance_record_id].status = "PRESENT"]
          /\ UNCHANGED <<enrollments, sessions>>
          /\ Return("validate_justification")
       \/ /\ justification_id \in JustificationIds
          /\ _verify_teacher_owns_session(a.session_id, teacher_id)
          /\ decision = "reject"
          /\ justifications' =
                [justifications EXCEPT ![justification_id].status = "REJECTED"]
          /\ UNCHANGED <<enrollments, sessions, attendance_records>>
          /\ Return("validate_justification")

\* validate_justification whose approval leaves the attendance record alone.
validate_justification_without_record_update(justification_id, teacher_id, decision) ==
    LET j == justifications[justification_id]
        a == attendance_records[j.attendance_record_id]
    IN \/ /\ justification_id \notin JustificationIds
          /\ Raise("validate_justification", "HTTP_404_NOT_FOUND")
       \/ /\ justification_id \in JustificationIds
          /\ j.status # "PENDING"
          /\ Raise("validate_justification", "HTTP_400_BAD_REQUEST")
       \/ /\ justification_id \in JustificationIds
          /\ j.status = "PENDING"
          /\ ~_verify_teacher_owns_session(a.session_id, teacher_id)
          /\ Raise("validate_justification", "HTTP_403_FORBIDDEN")
       \/ /\ justification_id \in JustificationIds
          /\ j.status = "PENDING"
          /\ _verify_teacher_owns_session(a.session_id, teacher_id)
          /\ decision = "approve"
          /\ approve(justification_id)
          /\ UNCHANGED <<enrollments, sessions, attendance_records>>
          /\ Return("validate_justification")
       \/ /\ justification_id \in JustificationIds
          /\ j.status = "PENDING"
          /\ _verify_teacher_owns_session(a.session_id, teacher_id)
          /\ decision = "reject"
          /\ reject(justification_id)
          /\ UNCHANGED <<enrollments, sessions, attendance_records>>
          /\ Return("validate_justification")

\* validate_justification moving the approved absence from the enrollment's
\* absence counter to its justified counter.
validate_justification_adjusting_counters(justification_id, teacher_id, decision) ==
    LET j == justifications[justification_id]
        a == attendance_records[j.attendance_record_id]
        e == a.enrollement_id
    IN \/ /\ justification_id \notin JustificationIds
          /\ Raise("validate_justification", "HTTP_404_NOT_FOUND")
       \/ /\ justification_id \in JustificationIds
          /\ j.status # "PENDING"
          /\ Raise("validate_justification", "HTTP_400_BAD_REQUEST")
       \/ /\ justification_id \in JustificationIds
          /\ j.status = "PENDING"
          /\ ~_verify_teacher_owns_session(a.session_id, teacher_id)
          /\ Raise("validate_justification", "HTTP_403_FORBIDDEN")
       \/ /\ justification_id \in JustificationIds
          /\ j.status = "PENDING"
          /\ _verify_teacher_owns_session(a.session_id, teacher_id)
          /\ decision = "approve"
          /\ approve(justification_id)
          /\ attendance_records' =
                [attendance_records EXCEPT
                    ![j.attendance_record_id].status = "PRESENT"]
          /\ enrollments' =
                [enrollments EXCEPT
                    ![e].number_of_absences =
                        IF @ > 0 THEN @ - 1 ELSE @,
                    ![e].number_of_absences_justified =
                        IF enrollments[e].number_of_absences > 0
                        THEN @ + 1 ELSE @]
          /\ UNCHANGED sessions
          /\ Return("validate_justification")
       \/ /\ justification_id \in JustificationIds
          /\ j.status = "PENDING"
          /\ _verify_teacher_owns_session(a.session_id, teacher_id)
          /\ decision = "reject"
          /\ reject(justification_id)
          /\ UNCHANGED <<enrollments, sessions, attendance_records>>
          /\ Return("validate_justification")

\* TeacherController.validate_justification
validate_justification(justification_id, teacher_id, decision) ==
    LET j == justifications[justification_id]
        a == attendance_records[j.attendance_record_id]
    IN \/ /\ justification_id \notin JustificationIds
          /\ Raise("validate_justification", "HTTP_404_NOT_FOUND")
       \/ /\ justification_id \in JustificationIds
          /\ j.status # "PENDING"
          /\ Raise("validate_justification", "HTTP_400_BAD_REQUEST")
       \/ /\ justification_id \in JustificationIds
          /\ j.status = "PENDING"
          /\ ~_verify_teacher_owns_session(a.session_id, teacher_id)
          /\ Raise("validate_justification", "HTTP_403_FORBIDDEN")
       \/ /\ justification_id \in JustificationIds
          /\ j.status = "PENDING"
          /\ _verify_teacher_owns_session(a.session_id, teacher_id)
          /\ decision = "approve"
          /\ approve(justification_id)
          /\ attendance_records' =
                [attendance_records EXCEPT
                    ![j.attendance_record_id].status = "PRESENT"]
          /\ UNCHANGED <<enrollments, sessions>>
          /\ Return("validate_justification")
       \/ /\ justification_id \in JustificationIds
          /\ j.status = "PENDING"
          /\ _verify_teacher_owns_session(a.session_id, teacher_id)
          /\ decision = "reject"
          /\ reject(justification_id)
          /\ UNCHANGED <<enrollments, sessions, attendance_records>>
          /\ Return("validate_justification")

\* restore_justification that leaves the attendance record as it finds it.
restore_justification_without_record_reset(justification_id, teacher_id) ==
    LET j == justifications[justification_id]
        a == attendance_records[j.attendance_record_id]
    IN \/ /\ justification_id \notin JustificationIds
          /\ Raise("restore_justification", "HTTP_404_NOT_FOUND")
       \/ /\ justification_id \in JustificationIds
          /\ j.status # "REJECTED"
          /\ Raise("restore_justification", "HTTP_400_BAD_REQUEST")
       \/ /\ justification_id \in JustificationIds
          /\ j.status = "REJECTED"
          /\ ~_verify_teacher_owns_session(a.session_id, teacher_id)
          /\ Raise("restore_justification", "HTTP_403_FORBIDDEN")
       \/ /\ justification_id \in JustificationIds
          /\ j.status = "REJECTED"
          /\ _verify_teacher_owns_session(a.session_id, teacher_id)
          /\ justifications' =
                [justifications EXCEPT ![justification_id].status = "PENDING"]
          /\ UNCHANGED <<enrollments, sessions, attendance_records>>
          /\ Return("restore_justification")

\* TeacherController.restore_justification
restore_justification(justification_id, teacher_id) ==
    LET j == justifications[justification_id]
        a == attendance_records[j.attendance_record_id]
    IN \/ /\ justification_id \notin JustificationIds
          /\ Raise("restore_justification", "HTTP_404_NOT_FOUND")
       \/ /\ justification_id \in JustificationIds
          /\ j.status # "REJECTED"
          /\ Raise("restore_justification", "HTTP_400_BAD_REQUEST")
       \/ /\ justification_id \in JustificationIds
          /\ j.status = "REJECTED"
          /\ ~_verify_teacher_owns_session(a.session_id, teacher_id)
          /\ Raise("restore_justification", "HTTP_403_FORBIDDEN")
       \/ /\ justification_id \in JustificationIds
          /\ j.status = "REJECTED"
          /\ _verify_teacher_owns_session(a.session_id, teacher_id)
          /\ justifications' =
                [justifications EXCEPT ![justification_id].status = "PENDING"]
          /\ attendance_records' =
                [attendance_records EXCEPT
                    ![j.attendance_record_id].status = "ABSENT"]
          /\ UNCHANGED <<enrollments, sessions>>
          /\ Return("restore_justification")

\* Request arguments: the lists of at most MaxBulk student ids.
StudentIdLists ==
    UNION {[1..n -> Students] : n \in 0..MaxBulk}

\* Request arguments: every id in a table and one id that is not in it.
IdArgs(table) == 1..(Len(table) + 1)

Next ==
    \/ \E st \in Students, m \in Modules : enroll_student(st, m)
    \/ \E ids \in StudentIdLists, m \in Modules : bulk_enroll_students(ids, m)
    \/ \E t \in Teachers, m \in Modules : create_session(t, m)
    \/ \E s \in IdArgs(sessions), t \in Teachers :
            TeacherController_close_session(s, t)
    \/ \E s \in IdArgs(sessions), t \in Teachers :
            SessionController_close_session(s, t)
    \/ \E st \in Students, c \in Codes : StudentController_mark_attendance(st, c)
    \/ \E st \in Students, c \in Codes : SessionController_mark_attendance(c, st)
    \/ \E r \in IdArgs(attendance_records), to \in AttendanceStatus :
            update_attendance_status(r, to)
    \/ \E e \in IdArgs(enrollments) : make_excluded_from_module(e)
    \/ \E e \in IdArgs(enrollments) : reinstate_student(e)
    \/ \E st \in Students, r \in IdArgs(attendance_records) :
            justify_absence(st, r)
    \/ \E j \in IdArgs(justifications), t \in Teachers,
          decision \in {"approve", "reject"} :
            validate_justification(j, t, decision)
    \/ \E j \in IdArgs(justifications), t \in Teachers :
            restore_justification(j, t)

Spec == Init /\ [][Next]_vars

\* ------------------------------------------------------------- deletion
\* select(AttendanceRecord).where(enrollement_id == ..)
RecordsOfEnrollment(e) ==
    {r \in AttendanceIds : attendance_records[r].enrollement_id = e}

\* unenroll_student that deletes the enrollment and leaves its attendance
\* records.
unenroll_student_keeping_records(student_id, module_id) ==
    LET existing == EnrollmentsOf(student_id, module_id)
    IN \/ /\ existing = {}
          /\ Raise("unenroll_student", "HTTP_404_NOT_FOUND")
       \/ \E e \in existing :
             /\ enrollments' = [enrollments EXCEPT ![e] = DeletedEnrollment]
             /\ UNCHANGED <<sessions, attendance_records, justifications>>
             /\ Return("unenroll_student")

\* EnrollmentController.unenroll_student: the attendance records of the
\* enrollment and the enrollment are deleted in one commit. A justification is
\* not deleted, and justifications.attendance_record_id is a foreign key with
\* no ON DELETE action: the commit that deletes a record with a justification
\* raises IntegrityError, the request ends with a 500 and nothing is deleted.
unenroll_student(student_id, module_id) ==
    LET existing == EnrollmentsOf(student_id, module_id)
    IN \/ /\ existing = {}
          /\ Raise("unenroll_student", "HTTP_404_NOT_FOUND")
       \/ \E e \in existing :                                      \* .first()
             LET attendance_records_of_e == RecordsOfEnrollment(e)
             IN \/ /\ \E j \in JustificationIds :
                         justifications[j].attendance_record_id
                             \in attendance_records_of_e
                   /\ Raise("unenroll_student", "HTTP_500_INTERNAL_SERVER_ERROR")
                \/ /\ ~\E j \in JustificationIds :
                         justifications[j].attendance_record_id
                             \in attendance_records_of_e
                   /\ attendance_records' =
                         [r \in 1..Len(attendance_records) |->
                             IF r \in attendance_records_of_e
                             THEN DeletedAttendanceRecord
                             ELSE attendance_records[r]]
                   /\ enrollments' = [enrollments EXCEPT ![e] = DeletedEnrollment]
                   /\ UNCHANGED <<sessions, justifications>>
                   /\ Return("unenroll_student")

\* AdminController.delete_student: session.delete(student) with no cascade on
\* Student.enrollments sets student_id of the student's enrollments to NULL,
\* which the column refuses: IntegrityError, a 500, nothing deleted. A student
\* with no enrollment is deleted with the user account; the student row is
\* not part of the model, whose tables the deletion leaves as they are.
delete_student(student_id) ==
    \/ /\ \E e \in EnrollmentIds : enrollments[e].student_id = student_id
       /\ Raise("delete_student", "HTTP_500_INTERNAL_SERVER_ERROR")
    \/ /\ ~\E e \in EnrollmentIds : enrollments[e].student_id = student_id
       /\ UNCHANGED db
       /\ Return("delete_student")

NextDelete ==
    \/ Next
    \/ \E st \in Students, m \in Modules : unenroll_student(st, m)
    \/ \E st \in Students : delete_student(st)

SpecDelete == Init /\ [][NextDelete]_vars

\* ----------------------------------------------------------- bulk status
\* The attendance-id lists a bulk_update_status request can carry.
AttendanceIdLists ==
    UNION {[1..n -> IdArgs(attendance_records)] : n \in 0..MaxBulk}

\* The loop of bulk_update_status leaving at the first item that fails.
RECURSIVE bulk_update_loop_aborting(_, _, _, _)
bulk_update_loop_aborting(attendance_ids, new_status, records, updated_records) ==
    IF attendance_ids = << >>
    THEN [attendance_records |-> records, updated_records |-> updated_records]
    ELSE LET attendance_id == Head(attendance_ids)
         IN IF /\ attendance_id \in DOMAIN records
               /\ records[attendance_id] # DeletedAttendanceRecord
               /\ new_status \in valid_transitions(records[attendance_id].status)
            THEN bulk_update_loop_aborting(Tail(attendance_ids), new_status,
                     [records EXCEPT ![attendance_id].status = new_status],
                     Append(updated_records, attendance_id))
            ELSE [attendance_records |-> records,
                  updated_records |-> updated_records]

\* The loop of bulk_update_status: update_attendance_status on each id in
\* turn, each with its own commit; an id whose update raises HTTPException is
\* skipped, the ids updated are collected in updated_records.
RECURSIVE bulk_update_loop(_, _, _, _)
bulk_update_loop(attendance_ids, new_status, records, updated_records) ==
    IF attendance_ids = << >>
    THEN [attendance_records |-> records, updated_records |-> updated_records]
    ELSE LET attendance_id == Head(attendance_ids)
         IN IF /\ attendance_id \in DOMAIN records
               /\ records[attendance_id] # DeletedAttendanceRecord
               /\ new_status \in valid_transitions(records[attendance_id].status)
            THEN bulk_update_loop(Tail(attendance_ids), new_status,
                     [records EXCEPT ![attendance_id].status = new_status],
                     Append(updated_records, attendance_id))
            ELSE bulk_update_loop(Tail(attendance_ids), new_status, records,
                     updated_records)

\* AttendanceController.bulk_update_status: the value returned is the list
\* of updated records alone.
bulk_update_status(attendance_ids, new_status) ==
    LET result == bulk_update_loop(attendance_ids, new_status,
                                   attendance_records, << >>)
    IN /\ attendance_records' = result.attendance_records
       /\ UNCHANGED <<enrollments, sessions, justifications, requests>>
       /\ response' = [op |-> "bulk_update_status", status |-> "ok",
                       updated_records |-> result.updated_records]

\* The bulk operations with the calls that set up what they read: the
\* enrollments of a module, excluded or not, and attendance records in each
\* status.
NextBulk ==
    \/ \E st \in Students, m \in Modules : enroll_student(st, m)
    \/ \E ids \in StudentIdLists, m \in Modules : bulk_enroll_students(ids, m)
    \/ \E t \in Teachers, m \in Modules : create_session(t, m)
    \/ \E r \in IdArgs(attendance_records), to \in AttendanceStatus :
            update_attendance_status(r, to)
    \/ \E e \in IdArgs(enrollments) : make_excluded_from_module(e)
    \/ \E ids \in AttendanceIdLists, to \in AttendanceStatus :
            bulk_update_status(ids, to)

SpecBulk == Init /\ [][NextBulk]_vars

\* ------------------------------------------- interleaved close requests
\* Two close requests run in their own database sessions; a step is one
\* database read (a get or a select, with the checks made on what it
\* returned) or one commit. Nothing in either close_session locks a row or
\* re-reads is_active before writing.
Requests == {1, 2}
Controllers == {"TeacherController", "SessionController"}

CloseOp(i) == requests[i].controller \o ".close_session"

\* The request ends with an HTTPException.
RaiseIn(i, status_code) ==
    /\ requests' = [requests EXCEPT ![i].pc = "done", ![i].status = status_code]
    /\ response' = [op |-> CloseOp(i), status |-> status_code]
    /\ UNCHANGED db

\* session_obj = self.session.get(ClassSession, session_id) and the checks on
\* the object read, in the order of each controller.
close_session_get(i) ==
    LET q == requests[i]
    IN /\ q.pc = "get"
       /\ \/ /\ q.session_id \notin SessionIds
             /\ RaiseIn(i, "HTTP_404_NOT_FOUND")
          \/ /\ q.session_id \in SessionIds
             /\ q.controller = "TeacherController"
             /\ ~_verify_teacher_owns_session(q.session_id, q.teacher_id)
             /\ RaiseIn(i, "HTTP_403_FORBIDDEN")
          \/ /\ q.session_id \in SessionIds
             /\ q.controller = "TeacherController"
             /\ _verify_teacher_owns_session(q.session_id, q.teacher_id)
             /\ ~sessions[q.session_id].is_active
             /\ RaiseIn(i, "HTTP_400_BAD_REQUEST")
          \/ /\ q.session_id \in SessionIds
             /\ q.controller = "SessionController"
             /\ ~sessions[q.session_id].is_active
             /\ RaiseIn(i, "HTTP_400_BAD_REQUEST")
          \/ /\ q.session_id \in SessionIds
             /\ q.controller = "SessionController"
             /\ sessions[q.session_id].is_active
             /\ ~_verify_teacher_owns_session(q.session_id, q.teacher_id)
             /\ RaiseIn(i, "HTTP_403_FORBIDDEN")
          \/ /\ q.session_id \in SessionIds
             /\ sessions[q.session_id].is_active
             /\ _verify_teacher_owns_session(q.session_id, q.teacher_id)
             /\ requests' = [requests EXCEPT ![i].pc = "commit"]
             /\ UNCHANGED <<db, response>>

\* session_obj.is_active = False; self.session.commit(). TeacherController
\* returns after it, SessionController goes on to the records.
close_session_commit(i) ==
    LET q == requests[i]
    IN /\ q.pc = "commit"
       /\ sessions' = [sessions EXCEPT ![q.session_id].is_active = FALSE]
       /\ UNCHANGED <<enrollments, attendance_records, justifications>>
       /\ \/ /\ q.controller = "TeacherController"
             /\ requests' = [requests EXCEPT ![i].pc = "done", ![i].status = "ok"]
             /\ response' = [op |-> CloseOp(i), status |-> "ok"]
          \/ /\ q.controller = "SessionController"
             /\ requests' = [requests EXCEPT ![i].pc = "select"]
             /\ UNCHANGED response

\* records = select(AttendanceRecord).where(session_id == ..).all(); the loop
\* then visits the ABSENT ones.
close_session_select_records(i) ==
    LET q == requests[i]
    IN /\ q.pc = "select"
       /\ requests' = [requests EXCEPT
                ![i].pc = "loop",
                ![i].records = SortedSeq({r \in RecordsOfSession(q.session_id) :
                                    attendance_records[r].status = "ABSENT"})]
       /\ UNCHANGED <<db, response>>

\* One turn of the loop: enrollment = self.session.get(Enrollment, ..) reads
\* the row unless this session already holds the object, and
\* enrollment.number_of_absences += 1 changes the object held.
close_session_get_enrollment(i) ==
    LET q == requests[i]
        e == attendance_records[Head(q.records)].enrollement_id
        held == IF e \in DOMAIN q.enrollment
                THEN q.enrollment[e]
                ELSE enrollments[e].number_of_absences
    IN /\ q.pc = "loop"
       /\ q.records # << >>
       /\ requests' = [requests EXCEPT
                ![i].records = Tail(q.records),
                ![i].enrollment = [x \in DOMAIN q.enrollment \cup {e} |->
                                     IF x = e THEN held + 1 ELSE q.enrollment[x]]]
       /\ UNCHANGED <<db, response>>

\* self.session.commit() after the loop writes the counters of the objects
\* held.
close_session_commit_counts(i) ==
    LET q == requests[i]
    IN /\ q.pc = "loop"
       /\ q.records = << >>
       /\ enrollments' =
             [e \in DOMAIN enrollments |->
                 IF e \in DOMAIN q.enrollment
                 THEN [enrollments[e] EXCEPT !.number_of_absences = q.enrollment[e]]
                 ELSE enrollments[e]]
       /\ UNCHANGED <<sessions, attendance_records, justifications>>
       /\ requests' = [requests EXCEPT ![i].pc = "done", ![i].status = "ok"]
       /\ response' = [op |-> CloseOp(i), status |-> "ok"]

\* The state the requests arrive in: st1 and st2 are enrolled in m1, t1 has
\* created one session for it and each student has marked attendance or not.
InitConcurrent ==
    /\ enrollments =
          [e \in 1..2 |->
              [student_id |-> IF e = 1 THEN "st1" ELSE "st2", module_id |-> "m1",
               number_of_absences |-> 0, number_of_absences_justified |-> 0,
               is_excluded |-> FALSE]]
    /\ sessions = <<[teacher_module_id |-> "tm1", session_code |-> "A1B2C3",
                     is_active |-> TRUE]>>
    /\ \E marked \in SUBSET (1..2) :
          attendance_records =
              [r \in 1..2 |->
                  [session_id |-> 1, module_id |-> "m1", enrollement_id |-> r,
                   status |-> IF r \in marked THEN "PRESENT" ELSE "ABSENT",
                   justification_id |-> NoJustification]]
    /\ justifications = << >>
    /\ response = [op |-> "none", status |-> "ok"]
    /\ requests \in
          [Requests ->
              {[controller |-> c, session_id |-> s, teacher_id |-> t,
                pc |-> "get", records |-> << >>, enrollment |-> << >>,
                status |-> "none"] :
                    c \in Controllers, s \in IdArgs(sessions), t \in Teachers}]

NextConcurrent ==
    \E i \in Requests :
        \/ close_session_get(i)
        \/ close_session_commit(i)
        \/ close_session_select_records(i)
        \/ close_session_get_enrollment(i)
        \/ close_session_commit_counts(i)

SpecConcurrent == InitConcurrent /\ [][NextConcurrent]_vars

\* -------------------------------------------- interleaved mark requests
\* Two StudentController.mark_attendance requests run in their own database
\* sessions; a step is one select, with the checks made on what it returned,
\* or the commit. The record is not locked (no with_for_update) and its
\* status is not tested again by the write.
MarkOp == "StudentController.mark_attendance"

\* The request ends with an HTTPException.
RaiseInMark(i, status_code) ==
    /\ requests' = [requests EXCEPT ![i].pc = "done", ![i].status = status_code]
    /\ response' = [op |-> MarkOp, status |-> status_code]
    /\ UNCHANGED db

\* select(ClassSession, ..).where(session_code == ..).first() and the checks
\* on the session read.
mark_attendance_select_session(i) ==
    LET q == requests[i]
    IN /\ q.pc = "session"
       /\ \/ /\ SessionsByCode(q.session_code) = {}
             /\ RaiseInMark(i, "HTTP_404_NOT_FOUND")
          \/ \E s \in SessionsByCode(q.session_code) :
                \/ /\ ~sessions[s].is_active
                   /\ RaiseInMark(i, "HTTP_400_BAD_REQUEST")
                \/ /\ sessions[s].is_active
                   /\ requests' = [requests EXCEPT ![i].pc = "enrollment",
                                                   ![i].session_obj = s]
                   /\ UNCHANGED <<db, response>>

\* select(Enrollment).where(student_id == .., module_id == ..).first() and the
\* checks on the enrollment read.
mark_attendance_select_enrollment(i) ==
    LET q == requests[i]
        es == EnrollmentsOf(q.student_id, ModuleOfSession(q.session_obj))
    IN /\ q.pc = "enrollment"
       /\ \/ /\ es = {}
             /\ RaiseInMark(i, "HTTP_403_FORBIDDEN")
          \/ \E e \in es :
                \/ /\ enrollments[e].is_excluded
                   /\ RaiseInMark(i, "HTTP_403_FORBIDDEN")
                \/ /\ ~enrollments[e].is_excluded
                   /\ requests' = [requests EXCEPT ![i].pc = "attendance",
                                                   ![i].enrollment = e]
                   /\ UNCHANGED <<db, response>>

\* select(AttendanceRecord).where(session_id == .., enrollement_id == ..)
\* .first() and the check of the status read.
mark_attendance_select_attendance(i) ==
    LET q == requests[i]
        rs == RecordsOf(q.session_obj, q.enrollment)
    IN /\ q.pc = "attendance"
       /\ \/ /\ rs = {}
             /\ RaiseInMark(i, "HTTP_404_NOT_FOUND")
          \/ \E r \in rs :
                \/ /\ attendance_records[r].status = "PRESENT"
                   /\ RaiseInMark(i, "HTTP_400_BAD_REQUEST")
                \/ /\ attendance_records[r].status # "PRESENT"
                   /\ requests' = [requests EXCEPT ![i].pc = "commit",
                                                   ![i].attendance = r]
                   /\ UNCHANGED <<db, response>>

\* attendance.status = PRESENT; self.session.commit()
mark_attendance_commit(i) ==
    LET q == requests[i]
    IN /\ q.pc = "commit"
       /\ attendance_records' =
             [attendance_records EXCEPT ![q.attendance].status = "PRESENT"]
       /\ UNCHANGED <<enrollments, sessions, justifications>>
       /\ requests' = [requests EXCEPT ![i].pc = "done", ![i].status = "ok"]
       /\ response' = [op |-> MarkOp, status |-> "ok"]

\* The state the requests arrive in: st1 is enrolled in m1, st2 is enrolled
\* in it, excluded from it or not enrolled; t1 has created one session for m1,
\* open or closed by now, and each student has marked attendance or not.
InitConcurrentMark ==
    /\ \E n \in 1..2, excluded \in BOOLEAN :
          /\ enrollments =
                [e \in 1..n |->
                    [student_id |-> IF e = 1 THEN "st1" ELSE "st2",
                     module_id |-> "m1",
                     number_of_absences |-> 0, number_of_absences_justified |-> 0,
                     is_excluded |-> (e = 2 /\ excluded)]]
          /\ \E marked \in SUBSET (1..n) :
                attendance_records =
                    [r \in 1..n |->
                        [session_id |-> 1, module_id |-> "m1", enrollement_id |-> r,
                         status |-> IF r = 2 /\ excluded THEN "EXCLUDED"
                                    ELSE IF r \in marked THEN "PRESENT"
                                    ELSE "ABSENT",
                         justification_id |-> NoJustification]]
    /\ \E active \in BOOLEAN :
          sessions = <<[teacher_module_id |-> "tm1", session_code |-> "A1B2C3",
                        is_active |-> active]>>
    /\ justifications = << >>
    /\ response = [op |-> "none", status |-> "ok"]
    /\ requests \in
          [Requests ->
              {[student_id |-> st, session_code |-> c, pc |-> "session",
                session_obj |-> 0, enrollment |-> 0, attendance |-> 0,
                status |-> "none"] : st \in Students, c \in Codes}]

NextConcurrentMark ==
    \E i \in Requests :
        \/ mark_attendance_select_session(i)
        \/ mark_attendance_select_enrollment(i)
        \/ mark_attendance_select_attendance(i)
        \/ mark_attendance_commit(i)

SpecConcurrentMark == InitConcurrentMark /\ [][NextConcurrentMark]_vars

\* ------------------------------- a mark request against a close request
\* Request 1 is a StudentController.mark_attendance call, request 2 a
\* close_session call of either controller; each runs in its own database
\* session and takes the steps above. mark_attendance reads is_active once,
\* in its first select, and close_session reads the records after its
\* commit of is_active; neither locks a row.
MarkRequest == 1
CloseRequest == 2

\* The state the two requests arrive in: st1 and st2 are enrolled in m1, t1
\* has created one session for it, still open, and each student has marked
\* attendance or not.
InitMarkClose ==
    /\ enrollments =
          [e \in 1..2 |->
              [student_id |-> IF e = 1 THEN "st1" ELSE "st2", module_id |-> "m1",
               number_of_absences |-> 0, number_of_absences_justified |-> 0,
               is_excluded |-> FALSE]]
    /\ sessions = <<[teacher_module_id |-> "tm1", session_code |-> "A1B2C3",
                     is_active |-> TRUE]>>
    /\ \E marked \in SUBSET (1..2) :
          attendance_records =
              [r \in 1..2 |->
                  [session_id |-> 1, module_id |-> "m1", enrollement_id |-> r,
                   status |-> IF r \in marked THEN "PRESENT" ELSE "ABSENT",
                   justification_id |-> NoJustification]]
    /\ justifications = << >>
    /\ response = [op |-> "none", status |-> "ok"]
    /\ \E st \in Students, code \in Codes, c \in Controllers,
          s \in IdArgs(sessions), t \in Teachers :
          requests =
              <<[student_id |-> st, session_code |-> code, pc |-> "session",
                 session_obj |-> 0, enrollment |-> 0, attendance |-> 0,
                 status |-> "none"],
                [controller |-> c, session_id |-> s, teacher_id |-> t,
                 pc |-> "get", records |-> << >>, enrollment |-> << >>,
                 status |-> "none"]>>

NextMarkClose ==
    \/ mark_attendance_select_session(MarkRequest)
    \/ mark_attendance_select_enrollment(MarkRequest)
    \/ mark_attendance_select_attendance(MarkRequest)
    \/ mark_attendance_commit(MarkRequest)
    \/ close_session_get(CloseRequest)
    \/ close_session_commit(CloseRequest)
    \/ close_session_select_records(CloseRequest)
    \/ close_session_get_enrollment(CloseRequest)
    \/ close_session_commit_counts(CloseRequest)

SpecMarkClose == InitMarkClose /\ [][NextMarkClose]_vars

\* ------------------------------------- create_session, commit by commit
\* TeacherController.create_session commits the session row, then selects
\* the enrollments and commits one attendance record per turn of its loop;
\* the requests of other users run between its commits.
CreateOp == "create_session"

\* The checks, the new ClassSession and its commit.
create_session_commit_session(i) ==
    LET q == requests[i]
        tms == {tm \in DOMAIN teacher_modules :
                    /\ teacher_modules[tm].teacher_id = q.teacher_id
                    /\ teacher_modules[tm].module_id = q.module_id}
    IN /\ q.pc = "session"
       /\ \/ /\ tms = {}
             /\ requests' = [requests EXCEPT ![i].pc = "done",
                                             ![i].status = "HTTP_403_FORBIDDEN"]
             /\ response' = [op |-> CreateOp, status |-> "HTTP_403_FORBIDDEN"]
             /\ UNCHANGED db
          \/ \E tm \in tms, share_code \in generate_share_code :
                /\ sessions' = Append(sessions,
                       [teacher_module_id |-> tm, session_code |-> share_code,
                        is_active |-> TRUE])
                /\ requests' = [requests EXCEPT ![i].pc = "select",
                                    ![i].new_session = Len(sessions) + 1]
                /\ UNCHANGED <<enrollments, attendance_records, justifications,
                               response>>

\* enrollments = select(Enrollment).where(module_id == ..,
\* is_excluded == False).all()
create_session_select_enrollments(i) ==
    LET q == requests[i]
    IN /\ q.pc = "select"
       /\ requests' = [requests EXCEPT
                ![i].pc = "loop",
                ![i].enrollments = SortedSeq(NotExcludedEnrollments(q.module_id))]
       /\ UNCHANGED <<db, response>>

\* One turn of the loop: a new ABSENT AttendanceRecord and its commit.
create_session_commit_record(i) ==
    LET q == requests[i]
    IN /\ q.pc = "loop"
       /\ q.enrollments # << >>
       /\ attendance_records' = Append(attendance_records,
              [session_id |-> q.new_session, module_id |-> q.module_id,
               enrollement_id |-> Head(q.enrollments), status |-> "ABSENT",
               justification_id |-> NoJustification])
       /\ requests' = [requests EXCEPT ![i].enrollments = Tail(q.enrollments)]
       /\ UNCHANGED <<enrollments, sessions, justifications, response>>

\* The return after the loop.
create_session_return(i) ==
    LET q == requests[i]
    IN /\ q.pc = "loop"
       /\ q.enrollments = << >>
       /\ requests' = [requests EXCEPT ![i].pc = "done", ![i].status = "ok"]
       /\ response' = [op |-> CreateOp, status |-> "ok"]
       /\ UNCHANGED db

\* The state the request arrives in: st1 and st2 are enrolled in m1, st2
\* excluded from it or not, and no session exists yet.
InitCreate ==
    /\ \E excluded \in BOOLEAN :
          enrollments =
              [e \in 1..2 |->
                  [student_id |-> IF e = 1 THEN "st1" ELSE "st2", module_id |-> "m1",
                   number_of_absences |-> 0, number_of_absences_justified |-> 0,
                   is_excluded |-> (e = 2 /\ excluded)]]
    /\ sessions = << >>
    /\ attendance_records = << >>
    /\ justifications = << >>
    /\ response = [op |-> "none", status |-> "ok"]
    /\ requests \in
          [{1} ->
              {[teacher_id |-> t, module_id |-> m, pc |-> "session",
                new_session |-> 0, enrollments |-> << >>, status |-> "none"] :
                    t \in Teachers, m \in Modules}]

\* The steps of the create request and, between them, whole mark and close
\* requests.
NextCreate ==
    \/ \E i \in DOMAIN requests : create_session_commit_session(i)
    \/ \E i \in DOMAIN requests : create_session_select_enrollments(i)
    \/ \E i \in DOMAIN requests : create_session_commit_record(i)
    \/ \E i \in DOMAIN requests : create_session_return(i)
    \/ \E st \in Students, c \in Codes : StudentController_mark_attendance(st, c)
    \/ \E s \in IdArgs(sessions), t \in Teachers :
            TeacherController_close_session(s, t)
    \/ \E s \in IdArgs(sessions), t \in Teachers :
            SessionController_close_session(s, t)

SpecCreate == InitCreate /\ [][NextCreate]_vars

\* ------------------------------------------------------------------ claims
\* The error kinds of the specification, as the HTTP statuses the controllers
\* raise for them.
NotFound == "HTTP_404_NOT_FOUND"
Forbidden == "HTTP_403_FORBIDDEN"
InvalidState == "HTTP_400_BAD_REQUEST"
InvalidTransition == "HTTP_400_BAD_REQUEST"

\* C1: a successful closeSession by the owning teacher on an open session,
\* through the close operation of the teacher API, closes the session and adds
\* exactly 1 to number_of_absences of every enrollment whose record in the
\* session is ABSENT, and leaves every other enrollment's counter as it was.
C1_TeacherCloseCountsAbsences ==
    [][\A s \in SessionIds, t \in Teachers :
          (/\ sessions[s].is_active
           /\ _verify_teacher_owns_session(s, t)
           /\ TeacherController_close_session(s, t))
          => /\ response'.status = "ok"
             /\ ~sessions'[s].is_active
             /\ \A e \in EnrollmentIds :
                   enrollments'[e].number_of_absences =
                      enrollments[e].number_of_absences
                         + (IF AbsentRecords(s, e) # {} THEN 1 ELSE 0)]_vars

\* The same statement for SessionController.close_session, which no route calls.
C1_SessionControllerCloseCountsAbsences ==
    [][\A s \in SessionIds, t \in Teachers :
          (/\ sessions[s].is_active
           /\ _verify_teacher_owns_session(s, t)
           /\ SessionController_close_session(s, t))
          => /\ response'.status = "ok"
             /\ ~sessions'[s].is_active
             /\ \A e \in EnrollmentIds :
                   enrollments'[e].number_of_absences =
                      enrollments[e].number_of_absences
                         + (IF AbsentRecords(s, e) # {} THEN 1 ELSE 0)]_vars

\* C2: once a session is closed, a closeSession call by its owning teacher
\* fails with InvalidState and changes no session, attendance record,
\* enrollment or justification.
C2_CloseClosedSessionFails ==
    [][\A s \in SessionIds, t \in Teachers :
          (/\ ~sessions[s].is_active
           /\ _verify_teacher_owns_session(s, t)
           /\ \/ TeacherController_close_session(s, t)
              \/ SessionController_close_session(s, t))
          => /\ response'.status = InvalidState
             /\ UNCHANGED db]_vars

\* A closed session whose absences were counted, and a close call on a closed
\* session has just been refused.
C2_Witness ==
    /\ response \in {[op |-> "TeacherController.close_session",
                      status |-> InvalidState],
                     [op |-> "SessionController.close_session",
                      status |-> InvalidState]}
    /\ \E s \in SessionIds :
          /\ ~sessions[s].is_active
          /\ \E r \in RecordsOfSession(s) :
                /\ attendance_records[r].status = "ABSENT"
                /\ enrollments[attendance_records[r].enrollement_id]
                      .number_of_absences = 1

\* C3: a session that is closed stays closed in every step, whatever
\* operation runs; no session is removed.
C3_ClosedIsTerminal ==
    [][\A s \in SessionIds :
          /\ s \in DOMAIN sessions'
          /\ ~sessions[s].is_active => ~sessions'[s].is_active]_vars

\* A closed session one of whose records was set PRESENT afterwards or before,
\* next to a second session opened later.
C3_Witness ==
    \E s1, s2 \in SessionIds :
        /\ s1 < s2
        /\ ~sessions[s1].is_active
        /\ sessions[s2].is_active
        /\ \E r \in RecordsOfSession(s1) : attendance_records[r].status = "PRESENT"

\* C4: right after a successful openSession for module m the new session is
\* active, and its attendance records are exactly one ABSENT record for each
\* enrollment of m that is not excluded, none for any other enrollment.
C4_OpenSessionCreatesAbsentRecords ==
    [][\A t \in Teachers, m \in Modules :
          (create_session(t, m) /\ response'.status = "ok")
          => LET n == Len(sessions) + 1
                 new == {r \in DOMAIN attendance_records' :
                            attendance_records'[r].session_id = n}
             IN /\ DOMAIN sessions' = 1..n
                /\ sessions'[n].is_active
                /\ teacher_modules[sessions'[n].teacher_module_id].module_id = m
                /\ \A r \in new : attendance_records'[r].status = "ABSENT"
                /\ \A r \in new :
                      attendance_records'[r].enrollement_id \in EnrollmentIds
                /\ \A e \in EnrollmentIds :
                      Cardinality({r \in new :
                          attendance_records'[r].enrollement_id = e})
                        = IF /\ enrollments[e].module_id = m
                             /\ ~enrollments[e].is_excluded
                          THEN 1 ELSE 0]_vars

\* A session just opened that holds a record for one enrollment of its module
\* and none for another enrollment of the module, which is excluded.
C4_Witness ==
    /\ response = [op |-> "create_session", status |-> "ok"]
    /\ \E s \in SessionIds, e1, e2 \in EnrollmentIds :
          /\ sessions[s].is_active
          /\ enrollments[e1].module_id = ModuleOfSession(s)
          /\ enrollments[e2].module_id = ModuleOfSession(s)
          /\ enrollments[e2].is_excluded
          /\ RecordsOf(s, e2) = {}
          /\ \E r \in RecordsOf(s, e1) : attendance_records[r].status = "ABSENT"
          /\ \A r \in AttendanceIds : attendance_records[r].status = "ABSENT"

\* Either marking operation, called by student st with share code c.
MarkAttendance(st, c) ==
    \/ StudentController_mark_attendance(st, c)
    \/ SessionController_mark_attendance(c, st)

\* The records of student st in the sessions that carry share code c and are
\* open (active = TRUE) or closed (active = FALSE), the student's enrollment
\* in the session's module being not excluded.
RecordsForMarking(st, c, active) ==
    {r \in AttendanceIds :
        \E s \in SessionsByCode(c), e \in EnrollmentIds :
            /\ sessions[s].is_active = active
            /\ e \in EnrollmentsOf(st, ModuleOfSession(s))
            /\ ~enrollments[e].is_excluded
            /\ r \in RecordsOf(s, e)}

\* C5: markAttendance by an enrolled, non-excluded student with the share code
\* of an open session in which the student's record is ABSENT sets that record
\* to PRESENT; the same call made again, the record now PRESENT, fails with
\* InvalidState and leaves the record PRESENT.
C5_MarkOnceThenInvalidState ==
    [][\A st \in Students, c \in Codes :
          MarkAttendance(st, c) =>
             \A r \in RecordsForMarking(st, c, TRUE) :
                 /\ attendance_records[r].status = "ABSENT"
                       => /\ response'.status = "ok"
                          /\ attendance_records'[r].status = "PRESENT"
                 /\ attendance_records[r].status = "PRESENT"
                       => /\ response'.status = InvalidState
                          /\ attendance_records'[r].status = "PRESENT"]_vars

\* No two sessions carry the same share code.
UniqueShareCodes ==
    \A s1, s2 \in SessionIds :
        sessions[s1].session_code = sessions[s2].session_code => s1 = s2

\* The statement of C5 in the states where share codes are unique.
C5_WithUniqueShareCodes ==
    [][\A st \in Students, c \in Codes :
          (UniqueShareCodes /\ MarkAttendance(st, c)) =>
             \A r \in RecordsForMarking(st, c, TRUE) :
                 /\ attendance_records[r].status = "ABSENT"
                       => /\ response'.status = "ok"
                          /\ attendance_records'[r].status = "PRESENT"
                 /\ attendance_records[r].status = "PRESENT"
                       => /\ response'.status = InvalidState
                          /\ attendance_records'[r].status = "PRESENT"]_vars

\* C6: markAttendance with the share code of a closed session fails with
\* InvalidState and changes no attendance record.
C6_MarkOnClosedSessionFails ==
    [][\A st \in Students, c \in Codes :
          (/\ \E s \in SessionsByCode(c) : ~sessions[s].is_active
           /\ MarkAttendance(st, c))
          => /\ response'.status = InvalidState
             /\ UNCHANGED attendance_records]_vars

\* The second half of C6 on its own: no step of a marking operation changes a
\* record of a closed session.
C6_ClosedSessionRecordsNotMarked ==
    [][\A st \in Students, c \in Codes :
          MarkAttendance(st, c) =>
             \A r \in AttendanceIds :
                 ~sessions[attendance_records[r].session_id].is_active
                    => attendance_records'[r] = attendance_records[r]]_vars

\* C7: markAttendance with the share code of an open session by a student who
\* has no enrollment in the session's module, or whose enrollment in it is
\* excluded, fails with Forbidden and changes no attendance record.
C7_MarkWithoutEnrollmentForbidden ==
    [][\A st \in Students, c \in Codes :
          (/\ \E s \in SessionsByCode(c) :
                 /\ sessions[s].is_active
                 /\ \A e \in EnrollmentsOf(st, ModuleOfSession(s)) :
                       enrollments[e].is_excluded
           /\ MarkAttendance(st, c))
          => /\ response'.status = Forbidden
             /\ UNCHANGED attendance_records]_vars

\* The statement of C7 for the marking operation of the student API, in the
\* states where share codes are unique.
C7_StudentControllerWithUniqueShareCodes ==
    [][\A st \in Students, c \in Codes :
          (/\ UniqueShareCodes
           /\ \E s \in SessionsByCode(c) :
                 /\ sessions[s].is_active
                 /\ \A e \in EnrollmentsOf(st, ModuleOfSession(s)) :
                       enrollments[e].is_excluded
           /\ StudentController_mark_attendance(st, c))
          => /\ response'.status = Forbidden
             /\ UNCHANGED attendance_records]_vars

\* The allow-list of section 4.3.
AllowedTransitions ==
    {<<"ABSENT", "PRESENT">>, <<"ABSENT", "EXCLUDED">>,
     <<"PRESENT", "ABSENT">>, <<"EXCLUDED", "ABSENT">>}

\* C8: update_attendance_status on a record in status `from` with target `to`
\* succeeds and sets the status to `to` if and only if (from, to) is in the
\* allow-list; every other pair fails with InvalidTransition and changes
\* nothing.
C8_OverrideFollowsAllowList ==
    [][\A r \in AttendanceIds, to \in AttendanceStatus :
          update_attendance_status(r, to) =>
             IF <<attendance_records[r].status, to>> \in AllowedTransitions
             THEN /\ response'.status = "ok"
                  /\ attendance_records' =
                        [attendance_records EXCEPT ![r].status = to]
                  /\ UNCHANGED <<enrollments, sessions, justifications>>
             ELSE /\ response'.status = InvalidTransition
                  /\ UNCHANGED db]_vars

\* A record set EXCLUDED by the override although its enrollment is not
\* excluded, in a session that is still open.
C8_Witness ==
    /\ response = [op |-> "update_attendance_status", status |-> "ok"]
    /\ \E r \in AttendanceIds :
          /\ attendance_records[r].status = "EXCLUDED"
          /\ ~enrollments[attendance_records[r].enrollement_id].is_excluded
          /\ sessions[attendance_records[r].session_id].is_active

\* C9: every change of an attendance record's status, by whatever operation,
\* is one of the transitions of the allow-list.
C9_EveryStatusChangeAllowed ==
    [][\A r \in AttendanceIds :
          attendance_records'[r].status # attendance_records[r].status
             => <<attendance_records[r].status, attendance_records'[r].status>>
                    \in AllowedTransitions]_vars

\* C10: a successful excludeFromModule on enrollment e sets its exclusion
\* flag, turns its ABSENT records into EXCLUDED ones and changes no other
\* record; on an excluded enrollment it fails with InvalidState and changes
\* nothing.
C10_ExcludePropagates ==
    [][\A e \in EnrollmentIds :
          make_excluded_from_module(e) =>
             IF enrollments[e].is_excluded
             THEN response'.status = InvalidState /\ UNCHANGED db
             ELSE /\ response'.status = "ok"
                  /\ enrollments'[e].is_excluded
                  /\ DOMAIN attendance_records' = AttendanceIds
                  /\ \A r \in AttendanceIds :
                        IF attendance_records[r].enrollement_id = e
                        THEN /\ attendance_records'[r].status # "ABSENT"
                             /\ attendance_records[r].status = "ABSENT"
                                   => attendance_records'[r].status = "EXCLUDED"
                             /\ attendance_records[r].status = "PRESENT"
                                   => attendance_records'[r].status = "PRESENT"
                        ELSE attendance_records'[r] = attendance_records[r]]_vars

\* An excluded enrollment with an EXCLUDED record and a PRESENT record, no
\* record of it ABSENT.
C10_Witness ==
    /\ response = [op |-> "make_excluded_from_module", status |-> "ok"]
    /\ \E e \in EnrollmentIds, r1, r2 \in AttendanceIds :
          /\ enrollments[e].is_excluded
          /\ attendance_records[r1].enrollement_id = e
          /\ attendance_records[r2].enrollement_id = e
          /\ attendance_records[r1].status = "EXCLUDED"
          /\ attendance_records[r2].status = "PRESENT"
          /\ \A r \in AttendanceIds :
                attendance_records[r].enrollement_id = e
                   => attendance_records[r].status # "ABSENT"

\* C11: reinstate on an excluded enrollment clears its exclusion flag and
\* changes nothing else (every attendance record, the EXCLUDED ones too, is
\* as before); on an enrollment that is not excluded it fails with
\* InvalidState and changes nothing.
C11_ReinstateClearsFlagOnly ==
    [][\A e \in EnrollmentIds :
          reinstate_student(e) =>
             IF enrollments[e].is_excluded
             THEN /\ response'.status = "ok"
                  /\ enrollments' = [enrollments EXCEPT ![e].is_excluded = FALSE]
                  /\ UNCHANGED <<sessions, attendance_records, justifications>>
             ELSE /\ response'.status = InvalidState
                  /\ UNCHANGED db]_vars

\* An enrollment just reinstated that still has an EXCLUDED record.
C11_Witness ==
    /\ response = [op |-> "reinstate_student", status |-> "ok"]
    /\ \E r \in AttendanceIds :
          /\ attendance_records[r].status = "EXCLUDED"
          /\ ~enrollments[attendance_records[r].enrollement_id].is_excluded

\* The exclusion flag of enrollment e is cleared in this step.
FlagCleared(e) ==
    /\ enrollments[e].is_excluded
    /\ e \in DOMAIN enrollments'
    /\ ~enrollments'[e].is_excluded

\* C12: the exclusion flag of an existing enrollment goes from excluded to
\* not excluded in a step of reinstate_student on it and in no other step.
C12_FlagClearedOnlyByReinstate ==
    [][\A e \in EnrollmentIds :
          FlagCleared(e) => /\ response'.op = "reinstate_student"
                            /\ reinstate_student(e)]_vars

\* What holds instead: the flag is cleared only by reinstate_student on the
\* enrollment, or by enroll_student or bulk_enroll_students called for the
\* enrollment's own student and module.
C12_FlagClearedByReinstateOrEnroll ==
    [][\A e \in EnrollmentIds :
          FlagCleared(e) =>
             \/ reinstate_student(e)
             \/ enroll_student(enrollments[e].student_id,
                               enrollments[e].module_id)
             \/ \E ids \in StudentIdLists :
                   /\ \E i \in DOMAIN ids : ids[i] = enrollments[e].student_id
                   /\ bulk_enroll_students(ids, enrollments[e].module_id)]_vars

\* The only enrollment there is has an EXCLUDED record and is not excluded,
\* and the last call was a successful enroll_student: the call found the
\* enrollment excluded and reinstated it.
C12_EnrollReinstated ==
    /\ response = [op |-> "enroll_student", status |-> "ok"]
    /\ Len(enrollments) = 1
    /\ ~enrollments[1].is_excluded
    /\ \E r \in AttendanceIds : attendance_records[r].status = "EXCLUDED"

\* Attendance record r belongs to an enrollment of student st.
BelongsTo(r, st) ==
    /\ attendance_records[r].enrollement_id \in EnrollmentIds
    /\ enrollments[attendance_records[r].enrollement_id].student_id = st

\* C13: submit on a record that belongs to another student, or that is
\* PRESENT or EXCLUDED, fails with InvalidState and changes nothing; a submit
\* that creates a justification is on an ABSENT record of the caller.
C13_SubmitRefusedWithInvalidState ==
    [][\A st \in Students, r \in AttendanceIds :
          justify_absence(st, r) =>
             /\ (~BelongsTo(r, st) \/ attendance_records[r].status # "ABSENT")
                   => /\ response'.status = InvalidState
                      /\ UNCHANGED db
             /\ justifications' # justifications
                   => /\ BelongsTo(r, st)
                      /\ attendance_records[r].status = "ABSENT"]_vars

\* C13 as amended: submit on a record of another student fails with
\* Forbidden, whatever the record's status; on a record of the caller that
\* is PRESENT or EXCLUDED it fails with InvalidState; in both cases nothing
\* changes, and a submit that creates a justification is on an ABSENT record
\* of the caller.
C13_SubmitRefusedForbiddenOrInvalidState ==
    [][\A st \in Students, r \in AttendanceIds :
          justify_absence(st, r) =>
             /\ ~BelongsTo(r, st)
                   => /\ response'.status = Forbidden
                      /\ UNCHANGED db
             /\ (BelongsTo(r, st) /\ attendance_records[r].status # "ABSENT")
                   => /\ response'.status = InvalidState
                      /\ UNCHANGED db
             /\ justifications' # justifications
                   => /\ BelongsTo(r, st)
                      /\ attendance_records[r].status = "ABSENT"]_vars

\* A submit has just been refused as Forbidden although every record is
\* ABSENT and no justification exists: the record was another student's.
C13_Witness ==
    /\ response = [op |-> "justify_absence", status |-> Forbidden]
    /\ justifications = << >>
    /\ \A r \in AttendanceIds : attendance_records[r].status = "ABSENT"

\* ------------------------------------------------------------------- C14
\* Conflict, as the code raises it (HTTP 400, like InvalidState).
Conflict == "HTTP_400_BAD_REQUEST"

HasJustification(r) ==
    \E j \in JustificationIds : justifications[j].attendance_record_id = r

C15_JustificationTransitions ==
    /\ [][/\ Len(justifications') >= Len(justifications)
          /\ \A j \in DOMAIN justifications' \ JustificationIds :
                justifications'[j].status = "PENDING"
          /\ \A j \in JustificationIds :
                justifications'[j].status # justifications[j].status =>
                    \/ /\ justifications[j].status = "PENDING"
                       /\ justifications'[j].status \in {"APPROVED", "REJECTED"}
                       /\ response'.op = "validate_justification"
                    \/ /\ justifications[j].status = "REJECTED"
                       /\ justifications'[j].status = "PENDING"
                       /\ response'.op = "restore_justification"]_vars
    /\ [][\A j \in JustificationIds, t \in Teachers, d \in {"approve", "reject"} :
            (justifications[j].status # "PENDING"
                /\ validate_justification(j, t, d)) =>
                    /\ response'.status = InvalidState
                    /\ UNCHANGED db]_vars

\* A decision was refused on an APPROVED justification.
C15_Witness ==
    /\ response = [op |-> "validate_justification", status |-> InvalidState]
    /\ justifications # << >>
    /\ \A j \in JustificationIds : justifications[j].status = "APPROVED"

\* ------------------------------------------------------------------- C16
\* The last call was a successful submit: the justification it created is the
\* last row of the table.
Submitted ==
    /\ response = [op |-> "justify_absence", status |-> "ok"]
    /\ justifications # << >>

\* C16: right after a submit for an ABSENT record, a decision by the teacher who
\* owns the record's session succeeds; approve leaves the justification
\* APPROVED and the record PRESENT, reject leaves the justification REJECTED
\* and the record ABSENT as it was.
C16_SubmitThenDecide ==
    [][\A t \in Teachers, d \in {"approve", "reject"} :
        LET j == Len(justifications)
            r == justifications[j].attendance_record_id
        IN (/\ Submitted
            /\ _verify_teacher_owns_session(attendance_records[r].session_id, t)
            /\ validate_justification(j, t, d)) =>
                /\ attendance_records[r].status = "ABSENT"
                /\ response'.status = "ok"
                /\ d = "approve" =>
                    /\ justifications'[j].status = "APPROVED"
                    /\ attendance_records'[r].status = "PRESENT"
                /\ d = "reject" =>
                    /\ justifications'[j].status = "REJECTED"
                    /\ attendance_records'[r] = attendance_records[r]]_vars

\* A decision approved a justification and the record is PRESENT.
C16_Witness ==
    /\ response = [op |-> "validate_justification", status |-> "ok"]
    /\ \E j \in JustificationIds :
        /\ justifications[j].status = "APPROVED"
        /\ attendance_records[justifications[j].attendance_record_id].status = "PRESENT"

\* A decision rejected a justification and the record is ABSENT.
C16_Rejected ==
    /\ response = [op |-> "validate_justification", status |-> "ok"]
    /\ \E j \in JustificationIds :
        /\ justifications[j].status = "REJECTED"
        /\ attendance_records[justifications[j].attendance_record_id].status = "ABSENT"

\* ------------------------------------------------------------------- C17
\* The teacher owns the session of the justification's attendance record.
OwnsJustification(t, j) ==
    _verify_teacher_owns_session(
        attendance_records[justifications[j].attendance_record_id].session_id, t)

\* C17: a restore by the owning teacher succeeds exactly on a REJECTED
\* justification, sets it PENDING and leaves its attendance record ABSENT
\* whatever the record's status was; on a PENDING or APPROVED justification it
\* fails with InvalidState and changes nothing. After a restore the justification
\* is PENDING on an ABSENT record, and the owning teacher's approval then leaves
\* it APPROVED and the record PRESENT.
C17_RestoreOnlyFromRejected ==
    /\ [][\A j \in JustificationIds, t \in Teachers :
            LET r == justifications[j].attendance_record_id
            IN (OwnsJustification(t, j) /\ restore_justification(j, t)) =>
                IF justifications[j].status = "REJECTED"
                THEN /\ response'.status = "ok"
                     /\ justifications'[j].status = "PENDING"
                     /\ attendance_records'[r].status = "ABSENT"
                ELSE /\ response'.status = InvalidState
                     /\ UNCHANGED db]_vars
    /\ [](response = [op |-> "restore_justification", status |-> "ok"] =>
            \E j \in JustificationIds :
                /\ justifications[j].status = "PENDING"
                /\ attendance_records[justifications[j].attendance_record_id].status
                        = "ABSENT")
    /\ [][\A j \in JustificationIds, t \in Teachers :
            LET r == justifications[j].attendance_record_id
            IN (/\ response = [op |-> "restore_justification", status |-> "ok"]
                /\ justifications[j].status = "PENDING"
                /\ OwnsJustification(t, j)
                /\ validate_justification(j, t, "approve")) =>
                    /\ response'.status = "ok"
                    /\ justifications'[j].status = "APPROVED"
                    /\ attendance_records'[r].status = "PRESENT"]_vars

\* A restore succeeded: the justification is PENDING and its record ABSENT.
C17_Witness ==
    /\ response = [op |-> "restore_justification", status |-> "ok"]
    /\ \E j \in JustificationIds :
        /\ justifications[j].status = "PENDING"
        /\ attendance_records[justifications[j].attendance_record_id].status = "ABSENT"

\* ------------------------------------------------------------------- C18
\* C18: a decision or a restore by a teacher who does not own the session of
\* the justification's attendance record fails with Forbidden, whatever the
\* status of the justification, and changes neither the justification nor the
\* attendance record (the notifications, written only after the checks of a
\* successful call, are not in the model).
C18_NonOwnerForbidden ==
    [][\A j \in JustificationIds, t \in Teachers :
        ~OwnsJustification(t, j) =>
            /\ \A d \in {"approve", "reject"} :
                validate_justification(j, t, d) =>
                    (response'.status = Forbidden /\ UNCHANGED db)
            /\ restore_justification(j, t) =>
                    (response'.status = Forbidden /\ UNCHANGED db)]_vars

\* What holds instead: such a call always fails and changes nothing; it fails
\* with Forbidden when the justification is in the status the operation
\* starts from (PENDING for a decision, REJECTED for a restore) and with
\* InvalidState otherwise.
C18_NonOwnerRefused ==
    [][\A j \in JustificationIds, t \in Teachers :
        ~OwnsJustification(t, j) =>
            /\ \A d \in {"approve", "reject"} :
                validate_justification(j, t, d) =>
                    /\ UNCHANGED db
                    /\ response'.status =
                        IF justifications[j].status = "PENDING"
                        THEN Forbidden ELSE InvalidState
            /\ restore_justification(j, t) =>
                    /\ UNCHANGED db
                    /\ response'.status =
                        IF justifications[j].status = "REJECTED"
                        THEN Forbidden ELSE InvalidState]_vars

\* ------------------------------------------------------------------- C19
\* C19: closing a session as a teacher other than the teacher of the session's
\* module assignment fails, in both implementations of the operation, and
\* leaves the session as it was (an active session stays active) and every
\* enrollment's absence counters unchanged.
C19_OnlyOwnerCloses ==
    [][\A s \in SessionIds, t \in Teachers :
        (/\ ~_verify_teacher_owns_session(s, t)
         /\ \/ TeacherController_close_session(s, t)
            \/ SessionController_close_session(s, t)) =>
                /\ response'.status # "ok"
                /\ sessions'[s].is_active = sessions[s].is_active
                /\ enrollments' = enrollments
                /\ UNCHANGED db]_vars

\* A close by another teacher was refused on an active session that has an
\* ABSENT record.
C19_Witness ==
    /\ response = [op |-> "SessionController.close_session", status |-> Forbidden]
    /\ \E s \in SessionIds :
        /\ sessions[s].is_active
        /\ \E e \in EnrollmentIds : AbsentRecords(s, e) # {}

\* ------------------------------------------------------------------- C20
\* Both requests are for the same session and come from its owning teacher;
\* the session is open when they arrive.
SameSessionByOwner ==
    /\ requests[1].session_id = requests[2].session_id
    /\ requests[1].session_id \in SessionIds
    /\ \A i \in Requests :
          _verify_teacher_owns_session(requests[i].session_id, requests[i].teacher_id)

\* C20: when two close requests for the same open session by its owning
\* teacher, interleaved at their reads and commits, have both ended, one has
\* succeeded and the other has failed with InvalidState, and no enrollment's
\* absence counter has been incremented twice: an enrollment with an ABSENT
\* record in the session has been counted exactly once where the request that
\* succeeded went through SessionController.close_session, the implementation
\* that counts.
C20_ConcurrentCloseGuarded ==
    (SameSessionByOwner /\ \A i \in Requests : requests[i].pc = "done") =>
        /\ \E i, k \in Requests :
              /\ requests[i].status = "ok"
              /\ requests[k].status = InvalidState
        /\ \A e \in EnrollmentIds :
              /\ enrollments[e].number_of_absences <= 1
              /\ (/\ AbsentRecords(requests[1].session_id, e) # {}
                  /\ \E i \in Requests :
                        /\ requests[i].controller = "SessionController"
                        /\ requests[i].status = "ok")
                    => enrollments[e].number_of_absences = 1

\* Both requests went through SessionController.close_session, both succeeded
\* and a counter was incremented twice.
C20_DoubleIncrement ==
    /\ SameSessionByOwner
    /\ \A i \in Requests :
          /\ requests[i].controller = "SessionController"
          /\ requests[i].pc = "done"
          /\ requests[i].status = "ok"
    /\ \E e \in EnrollmentIds : enrollments[e].number_of_absences = 2

\* Both requests went through TeacherController.close_session and both
\* succeeded.
C20_BothSucceed ==
    /\ SameSessionByOwner
    /\ \A i \in Requests :
          /\ requests[i].controller = "TeacherController"
          /\ requests[i].pc = "done"
          /\ requests[i].status = "ok"

\* ------------------------------------------------------------------- C21
\* Both mark requests are from one student, for the open session.
SameStudentSameOpenSession ==
    /\ requests[1].student_id = requests[2].student_id
    /\ requests[1].session_code = requests[2].session_code
    /\ \E s \in SessionsByCode(requests[1].session_code) : sessions[s].is_active

\* C21: when two mark requests of one student for the same open session,
\* interleaved at their reads and commits, have both ended, at most one of
\* them has succeeded, and when one has, the other has failed with
\* InvalidState.
C21_ConcurrentMarkSerialized ==
    (SameStudentSameOpenSession /\ \A i \in Requests : requests[i].pc = "done") =>
        \A i, k \in Requests :
            (i # k /\ requests[i].status = "ok") =>
                requests[k].status = InvalidState

\* Both requests read the record ABSENT and both made the transition.
C21_BothMarked ==
    /\ SameStudentSameOpenSession
    /\ \A i \in Requests : requests[i].pc = "done" /\ requests[i].status = "ok"
    /\ requests[1].attendance = requests[2].attendance

\* ------------------------------------------------------------------- C22
\* C22: no request running between the steps of create_session sees the new
\* session without its attendance records: in every state each session has a
\* record for every non-excluded enrollment of its module.
C22_SessionNeverWithoutRecords ==
    \A s \in SessionIds :
        \A e \in NotExcludedEnrollments(ModuleOfSession(s)) :
            RecordsOf(s, e) # {}

\* A student enrolled in the module presented the code of the new, open
\* session and was told that there is no attendance record for it.
C22_MarkFindsNoRecord ==
    /\ response = [op |-> "StudentController.mark_attendance",
                   status |-> NotFound]
    /\ \E c \in Codes : SessionsByCode(c) # {}
    /\ \A s \in SessionIds : sessions[s].session_code = "A1B2C3"

\* The session was closed, with its absences counted, before the record of an
\* enrollment was created: that record is ABSENT and was never counted.
C22_ClosedBeforeRecords ==
    /\ requests[1].pc = "done"
    /\ requests[1].status = "ok"
    /\ \E s \in SessionIds, e \in EnrollmentIds :
          /\ ~sessions[s].is_active
          /\ AbsentRecords(s, e) # {}
          /\ enrollments[e].number_of_absences = 0
    /\ \E e \in EnrollmentIds : enrollments[e].number_of_absences = 1

\* ------------------------------------------------------------------- C23
\* C23: in every state no two open sessions carry the same share code, so a
\* code presented to the marking operation names at most one open session.
C23_OpenSessionsUniqueShareCodes ==
    \A s1, s2 \in SessionIds :
        (/\ sessions[s1].is_active
         /\ sessions[s2].is_active
         /\ sessions[s1].session_code = sessions[s2].session_code) => s1 = s2

\* ------------------------------------------------------------------- C24
\* C24: in every state each open session has an attendance record for every
\* enrollment of its module that is not excluded, so the marking operation
\* never answers NotFound to an enrolled, non-excluded student who presents
\* the code of an open session.
C24_OpenSessionHasAllRecords ==
    \A s \in SessionIds :
        sessions[s].is_active =>
            \A e \in NotExcludedEnrollments(ModuleOfSession(s)) :
                RecordsOf(s, e) # {}

\* The marking operation answered NotFound although every code names a
\* session: the record was missing.
C24_MarkFindsNoRecord ==
    /\ response = [op |-> "StudentController.mark_attendance",
                   status |-> NotFound]
    /\ \A c \in Codes : SessionsByCode(c) # {}

\* ------------------------------------------------------------------- C25
\* C25: in every state the two links between a justification and its
\* attendance record agree: the record a justification names exists and names
\* that justification, and a record that names a justification names an
\* existing one, which names that record.
C25_LinksConsistent ==
    /\ \A j \in JustificationIds :
          /\ justifications[j].attendance_record_id \in AttendanceIds
          /\ attendance_records[justifications[j].attendance_record_id]
                .justification_id = j
    /\ \A r \in AttendanceIds :
          attendance_records[r].justification_id # NoJustification =>
              /\ attendance_records[r].justification_id \in JustificationIds
              /\ justifications[attendance_records[r].justification_id]
                    .attendance_record_id = r

\* The removal of an enrollment was refused because one of its attendance
\* records has a justification; both links are in place.
C25_Witness ==
    /\ response = [op |-> "unenroll_student",
                   status |-> "HTTP_500_INTERNAL_SERVER_ERROR"]
    /\ \E j \in JustificationIds :
          /\ justifications[j].attendance_record_id \in AttendanceIds
          /\ attendance_records[justifications[j].attendance_record_id]
                .justification_id = j

\* ------------------------------------------------------------------- C26
\* C26: in every state each attendance record references an existing
\* enrollment: whenever an operation removes an enrollment, the attendance
\* records of that enrollment are removed in the same step.
C26_NoRecordWithoutEnrollment ==
    /\ [](\A r \in AttendanceIds :
            attendance_records[r].enrollement_id \in EnrollmentIds)
    /\ [][\A e \in EnrollmentIds :
            enrollments'[e] = DeletedEnrollment =>
                \A r \in RecordsOfEnrollment(e) :
                    attendance_records'[r] = DeletedAttendanceRecord]_vars

\* An enrollment was removed with its attendance record, and the record of
\* another enrollment remains.
C26_Witness ==
    /\ response = [op |-> "unenroll_student", status |-> "ok"]
    /\ \E r \in DOMAIN attendance_records :
          attendance_records[r] = DeletedAttendanceRecord
    /\ AttendanceIds # {}

\* The removal of a student who has an enrollment was refused.
C26_DeleteStudentRefused ==
    /\ response = [op |-> "delete_student",
                   status |-> "HTTP_500_INTERNAL_SERVER_ERROR"]
    /\ AttendanceIds # {}

\* ------------------------------------------------------------------- C27
\* How often x is an item of the list seq.
Occurrences(seq, x) == Cardinality({i \in DOMAIN seq : seq[i] = x})

\* enroll_student(student_id, module_id), called alone, would succeed.
WouldEnroll(student_id, module_id) ==
    \A e \in EnrollmentsOf(student_id, module_id) : enrollments[e].is_excluded

\* update_attendance_status(attendance_id, new_status), called alone, would
\* succeed.
WouldUpdate(attendance_id, new_status) ==
    /\ attendance_id \in AttendanceIds
    /\ new_status \in valid_transitions(attendance_records[attendance_id].status)

\* bulk_enroll_students goes through the whole list: a student who could be
\* enrolled is enrolled and listed once in enrolled_students, every other
\* item of the list is in failures and its enrollment is as it was.
C27_EnrollItems(student_ids, module_id) ==
    bulk_enroll_students(student_ids, module_id) =>
        /\ response'.status = "ok"
        /\ \A e \in DOMAIN enrollments :
              \/ enrollments'[e] = enrollments[e]
              \/ /\ Occurrences(student_ids, enrollments[e].student_id) > 0
                 /\ enrollments[e].module_id = module_id
                 /\ enrollments[e].is_excluded
                 /\ enrollments'[e] = [enrollments[e] EXCEPT !.is_excluded = FALSE]
        /\ \A student_id \in Students :
              IF Occurrences(student_ids, student_id) > 0
                 /\ WouldEnroll(student_id, module_id)
              THEN /\ \E e \in DOMAIN enrollments' :
                         /\ enrollments'[e].student_id = student_id
                         /\ enrollments'[e].module_id = module_id
                         /\ ~enrollments'[e].is_excluded
                   /\ Occurrences(response'.enrolled_students, student_id) = 1
                   /\ Occurrences(response'.failures, student_id)
                         = Occurrences(student_ids, student_id) - 1
              ELSE /\ \A e \in DOMAIN enrollments' :
                         /\ enrollments'[e].student_id = student_id
                         /\ enrollments'[e].module_id = module_id
                         => /\ e \in DOMAIN enrollments
                            /\ enrollments'[e] = enrollments[e]
                   /\ Occurrences(response'.enrolled_students, student_id) = 0
                   /\ Occurrences(response'.failures, student_id)
                         = Occurrences(student_ids, student_id)

\* bulk_update_status goes through the whole list: a record that could take
\* new_status takes it and is listed once in updated_records, every other
\* record is as it was and is not listed.
C27_UpdateItems(attendance_ids, new_status) ==
    bulk_update_status(attendance_ids, new_status) =>
        /\ response'.status = "ok"
        /\ DOMAIN attendance_records' = DOMAIN attendance_records
        /\ \A r \in DOMAIN attendance_records :
              IF Occurrences(attendance_ids, r) > 0 /\ WouldUpdate(r, new_status)
              THEN /\ attendance_records'[r] =
                         [attendance_records[r] EXCEPT !.status = new_status]
                   /\ Occurrences(response'.updated_records, r) = 1
              ELSE /\ attendance_records'[r] = attendance_records[r]
                   /\ Occurrences(response'.updated_records, r) = 0
        /\ \A i \in DOMAIN response'.updated_records :
              Occurrences(attendance_ids, response'.updated_records[i]) > 0

\* C27 as stated: a bulk operation (bulk_update_status, bulk_enroll_students)
\* processes every item of its input, applies each item that would succeed
\* alone, leaves the entity of each failing item unchanged, and its result
\* carries a success list and a failure list naming each item.
C27_BulkReportsSuccessAndFailureLists ==
    [][/\ response'.op = "bulk_enroll_students" =>
             \A ids \in StudentIdLists, m \in Modules : C27_EnrollItems(ids, m)
       /\ response'.op = "bulk_update_status" =>
          \A ids \in AttendanceIdLists, to \in AttendanceStatus :
             /\ C27_UpdateItems(ids, to)
             /\ bulk_update_status(ids, to) =>
                   /\ "failures" \in DOMAIN response'
                   /\ \A r \in IdArgs(attendance_records) :
                         Occurrences(response'.failures, r)
                            + Occurrences(response'.updated_records, r)
                            = Occurrences(ids, r)]_vars

\* C27, amended: a bulk operation processes every item of its input, applies
\* each item that would succeed alone and leaves the entity of each failing
\* item unchanged, never aborting at the first error; bulk_enroll_students
\* reports a success list and a failure list, bulk_update_status reports the
\* list of updated records only (the failed items are the ones missing
\* from it).
C27_BulkProcessesEveryItem ==
    [][/\ response'.op = "bulk_enroll_students" =>
             \A ids \in StudentIdLists, m \in Modules : C27_EnrollItems(ids, m)
       /\ response'.op = "bulk_update_status" =>
          \A ids \in AttendanceIdLists, to \in AttendanceStatus :
             /\ C27_UpdateItems(ids, to)
             /\ bulk_update_status(ids, to) =>
                   DOMAIN response' = {"op", "status", "updated_records"}]_vars

\* A bulk enrollment went on after a failing item: one student of the list
\* was refused, another one enrolled.
C27_PartialBulkEnroll ==
    /\ response.op = "bulk_enroll_students"
    /\ response.enrolled_students # << >>
    /\ response.failures # << >>

\* A bulk status update applied the new status to a record.
C27_BulkUpdateApplied ==
    /\ response.op = "bulk_update_status"
    /\ response.updated_records # << >>

\* ------------------------------------------------------------------- C28
\* C28: in every reachable state a PENDING justification refers to an
\* attendance record that is ABSENT: nothing done while the justification is
\* pending (self-marking in a session still open, teacher override, exclusion
\* of the enrollment) moves its record out of ABSENT.
C28_PendingJustificationRecordAbsent ==
    \A j \in JustificationIds :
        justifications[j].status = "PENDING" =>
            attendance_records[justifications[j].attendance_record_id].status
                = "ABSENT"


\* A reject decided on a justification whose record had been marked PRESENT
\* or set EXCLUDED in the meantime: the record is not ABSENT after it.
C28_RejectLeavesRecordNotAbsent ==
    /\ response.op = "validate_justification"
    /\ response.status = "ok"
    /\ \E j \in JustificationIds :
          /\ justifications[j].status = "REJECTED"
          /\ attendance_records[justifications[j].attendance_record_id].status
                # "ABSENT"

\* The exclusion of the enrollment set the record of a pending justification
\* to EXCLUDED.
C28_PendingJustificationRecordExcluded ==
    /\ response.op = "make_excluded_from_module"
    /\ \E j \in JustificationIds :
          /\ justifications[j].status = "PENDING"
          /\ attendance_records[justifications[j].attendance_record_id].status
                = "EXCLUDED"

\* ------------------------------------------------------------------- C29
\* C29: the absence counters of an enrollment are changed by closing a
\* session only: number_of_absences never decreases and changes in no other
\* operation, number_of_absences_justified is changed by no operation at
\* all; approving a justification sets the record to PRESENT and leaves both
\* counters of its enrollment as they were, also for an absence counted at
\* closure.
C29_CountersChangedByCloseOnly ==
    [][/\ \A e \in DOMAIN enrollments :
             /\ e \in DOMAIN enrollments'
             /\ enrollments'[e].number_of_absences_justified
                   = enrollments[e].number_of_absences_justified
             /\ enrollments'[e].number_of_absences
                   >= enrollments[e].number_of_absences
             /\ enrollments'[e].number_of_absences
                   # enrollments[e].number_of_absences
                => /\ response'.op = "SessionController.close_session"
                   /\ response'.status = "ok"
       /\ \A e \in DOMAIN enrollments' \ DOMAIN enrollments :
             /\ enrollments'[e].number_of_absences = 0
             /\ enrollments'[e].number_of_absences_justified = 0
       /\ \A j \in JustificationIds :
             /\ justifications[j].status = "PENDING"
             /\ justifications'[j].status = "APPROVED"
             => LET r == justifications[j].attendance_record_id
                    e == attendance_records[r].enrollement_id
                IN /\ attendance_records'[r].status = "PRESENT"
                   /\ enrollments'[e] = enrollments[e]]_vars

\* A justification was approved for an absence that the closure of its
\* session had counted: the record is PRESENT, the counter still holds it.
C29_ApprovedAfterCounted ==
    /\ response = [op |-> "validate_justification", status |-> "ok"]
    /\ \E j \in JustificationIds :
          LET r == justifications[j].attendance_record_id
              e == attendance_records[r].enrollement_id
          IN /\ justifications[j].status = "APPROVED"
             /\ attendance_records[r].status = "PRESENT"
             /\ ~sessions[attendance_records[r].session_id].is_active
             /\ enrollments[e].number_of_absences >= 1
             /\ enrollments[e].number_of_absences_justified = 0

\* ------------------------------------------------------------------- C30
\* The mark request succeeded on a record that the close request, a
\* SessionController.close_session that succeeded too, counted as an absence
\* of the same enrollment.
C30_MarkedPresentAndCountedAbsent ==
    /\ requests[MarkRequest].status = "ok"
    /\ requests[CloseRequest].status = "ok"
    /\ requests[CloseRequest].controller = "SessionController"
    /\ attendance_records[requests[MarkRequest].attendance].status = "PRESENT"
    /\ enrollments[requests[MarkRequest].enrollment].number_of_absences > 0

\* A record turns PRESENT in a step taken when the closure of its session
\* is committed already.
C30_PresentAfterClosure ==
    \E r \in AttendanceIds :
        /\ attendance_records[r].status # "PRESENT"
        /\ attendance_records'[r].status = "PRESENT"
        /\ ~sessions[attendance_records[r].session_id].is_active

\* C30: when a markAttendance request and a closeSession request for the
\* same session are interleaved at the granularity of their database reads
\* and commits, the outcome is that of one of the two serial orders: the
\* student's record never ends PRESENT through self-marking while
\* closeSession has counted that record as ABSENT, and no record becomes
\* PRESENT after the closure of its session has been committed.
C30_MarkCloseSerializable ==
    /\ [](~C30_MarkedPresentAndCountedAbsent)
    /\ [][~C30_PresentAfterClosure]_vars

\* The mark request passed its is_active check and committed PRESENT after
\* the close request had committed is_active = False.
C30_MarkedInClosedSession ==
    /\ response = [op |-> MarkOp, status |-> "ok"]
    /\ requests[MarkRequest].status = "ok"
    /\ requests[CloseRequest].pc # "get"
    /\ requests[CloseRequest].pc # "commit"
    /\ ~sessions[requests[MarkRequest].session_obj].is_active

====
